---- MODULE Spec2Model ----
(***************************************************************************)
(* Model of the Merkle context store (storage/src/merkle_storage.rs).      *)
(*                                                                         *)
(* A hash is modelled by the bytes fed to the hasher, tagged by the kind   *)
(* of entry (BLAKE2b is taken to be collision free).  The only two entries *)
(* that feed the hasher the same bytes are the empty blob and the empty    *)
(* tree: both feed exactly u64_be(0), so both get the hash EmptyHash.      *)
(* An Option is <<>> (None) or <<x>> (Some(x)).  A Result is               *)
(* <<"Ok", v>>, <<"Err", name>> or, for a panic, <<"Panic", text>>.        *)
(* Vec indices are 1-based here (0-based in the source).                   *)
(***************************************************************************)
EXTENDS Integers, Sequences, FiniteSets, TLC

VARIABLES
    current_stage_tree,       \* Option<Tree>
    current_stage_tree_hash,  \* Option<EntryHash>
    db,                       \* the KV backend: EntryHash -> Entry
    staged,                   \* Vec<(EntryHash, RefCnt, Entry)>
    staged_indices,           \* HashMap<EntryHash, usize>
    last_commit_hash,         \* Option<EntryHash>
    actions,                  \* Vec<Action>
    poisoned,                 \* a panic unwound through the store's lock
    lastOp,                   \* history: the last public call and its result
    returned,                 \* history: hashes returned by successful commits
    model_map,                \* history: reference key-to-value map
    model_ok,                 \* history: model_map is in step with the store
    nops,                     \* history: number of set/copy/delete calls
    ncommits,                 \* history: number of commit calls
    ncheckouts,               \* history: number of checkout calls
    nfailures,                \* history: number of failed batch writes
    hash_arg,                 \* the entry handed to hash_tree or hash_blob
    hash_fed,                 \* Option: the bytes fed to the hasher
    hash_out,                 \* Option: the EntryHash that came back
    cm,                       \* the ChainManager actor
    storage,                  \* the persistent storage the manager reads
    sys,                      \* the actor system around the manager
    handled                   \* how many messages from outside were handled

merkle_vars == <<current_stage_tree, current_stage_tree_hash, db, staged,
                 staged_indices, last_commit_hash, actions, poisoned, lastOp,
                 returned, model_map, model_ok, nops, ncommits, ncheckouts,
                 nfailures>>

hash_vars == <<hash_arg, hash_fed, hash_out>>

chain_vars == <<cm, storage, sys, handled>>

\* what a call on the Merkle store leaves alone
other_vars == <<hash_vars, chain_vars>>

vars == <<merkle_vars, other_vars>>

(***************************************************************************)
(* Bounds and input sets                                                   *)
(***************************************************************************)
MaxOps == 2
MaxCommits == 2
MaxCheckouts == 1
MaxEmptyTreeRefs == 1
MaxWriteFailures == 1

Segs == {"a", "b"}
SegOrder == <<"a", "b">>
Keys == {<<"a">>, <<"b">>, <<"a", "b">>}
Values == {<<>>, <<1>>}
Times == {0}

RECURSIVE KeysUpTo(_)
KeysUpTo(n) ==
    IF n = 0 THEN {}
    ELSE LET shorter == KeysUpTo(n - 1) IN
         {<<s>> : s \in Segs} \cup shorter
           \cup {Append(k, s) : k \in shorter, s \in Segs}

\* every key a run can bind: a copy deepens a key by at most one segment
ReadKeys == KeysUpTo(MaxOps + 1)

(***************************************************************************)
(* Options and results                                                     *)
(***************************************************************************)
None == <<>>
Some(x) == <<x>>
Ok(v) == <<"Ok", v>>
Err(e) == <<"Err", e>>
Panic(t) == <<"Panic", t>>
IsOk(r) == r[1] = "Ok"

(***************************************************************************)
(* Entries, nodes and hashes                                               *)
(***************************************************************************)
EmptyTree == [s \in {} |-> 0]
TreeEntry(t) == <<"Tree", t>>
BlobEntry(b) == <<"Blob", b>>
CommitEntry(c) == <<"Commit", c>>

Leaf(h) == [node_kind |-> "Leaf", entry_hash |-> h]
get_non_leaf(h) == [node_kind |-> "NonLeaf", entry_hash |-> h]

TreeInsert(t, k, n) == [s \in DOMAIN t \cup {k} |-> IF s = k THEN n ELSE t[s]]
TreeRemove(t, k) == [s \in DOMAIN t \ {k} |-> t[s]]

EmptyHash == <<"E", <<>>>>
hash_tree(t) == IF DOMAIN t = {} THEN EmptyHash ELSE <<"T", t>>
hash_blob(b) == IF Len(b) = 0 THEN EmptyHash ELSE <<"B", b>>
hash_commit(c) == <<"C", c>>
hash_entry(e) ==
    CASE e[1] = "Commit" -> hash_commit(e[2])
      [] e[1] = "Tree" -> hash_tree(e[2])
      [] e[1] = "Blob" -> hash_blob(e[2])

(***************************************************************************)
(* The in-memory part of the store that commit works on                    *)
(***************************************************************************)
Mem == [staged |-> staged, staged_indices |-> staged_indices,
        cst |-> current_stage_tree, csth |-> current_stage_tree_hash]

R(m, tag, val) == [m |-> m, tag |-> tag, val |-> val]

\* index of hash in m.staged: 0 for None, -1 when the assert_eq fails
staged_get_idx(m, hash) ==
    IF hash \notin DOMAIN m.staged_indices THEN 0
    ELSE IF m.staged[m.staged_indices[hash]][1] # hash THEN -1
    ELSE m.staged_indices[hash]

get_entry_db(hash) ==
    IF hash \in DOMAIN db THEN Ok(db[hash]) ELSE Err("EntryNotFound")

\* get_entry with a hash stored nowhere reported as a value that is not found
get_entry_as_value_not_found(m, hash) ==
    LET i == staged_get_idx(m, hash) IN
    IF i = -1 THEN Panic("staged_get_idx")
    ELSE IF i > 0 THEN Ok(m.staged[i][3])
    ELSE IF hash \in DOMAIN db THEN Ok(db[hash]) ELSE Err("ValueNotFound")

get_entry(m, hash) ==
    LET i == staged_get_idx(m, hash) IN
    IF i = -1 THEN Panic("staged_get_idx")
    ELSE IF i > 0 THEN Ok(m.staged[i][3])
    ELSE get_entry_db(hash)

get_tree(m, hash) ==
    LET e == get_entry(m, hash) IN
    IF ~IsOk(e) THEN e
    ELSE IF e[2][1] = "Tree" THEN Ok(e[2][2])
    ELSE Err("FoundUnexpectedStructure")

get_commit(m, hash) ==
    LET e == get_entry(m, hash) IN
    IF ~IsOk(e) THEN e
    ELSE IF e[2][1] = "Commit" THEN Ok(e[2][2])
    ELSE Err("FoundUnexpectedStructure")

RECURSIVE find_tree(_, _, _)
find_tree(m, root, key) ==
    IF key = <<>> THEN Ok(root)
    ELSE IF Head(key) \notin DOMAIN root THEN Ok(EmptyTree)
    ELSE LET e == get_entry(m, root[Head(key)].entry_hash) IN
         IF ~IsOk(e) THEN e
         ELSE CASE e[2][1] = "Tree" -> find_tree(m, e[2][2], Tail(key))
                [] e[2][1] = "Blob" -> Ok(EmptyTree)
                [] e[2][1] = "Commit" -> Err("FoundUnexpectedStructure")

get_from_tree(m, root_hash, key) ==
    IF key = <<>> THEN Err("KeyEmpty")
    ELSE LET file == key[Len(key)]
             path == SubSeq(key, 1, Len(key) - 1)
             root == get_tree(m, root_hash)
         IN
         IF ~IsOk(root) THEN root
         ELSE LET node == find_tree(m, root[2], path) IN
              IF ~IsOk(node) THEN node
              ELSE IF file \notin DOMAIN node[2] THEN Err("ValueNotFound")
              ELSE LET e == get_entry(m, node[2][file].entry_hash) IN
                   IF ~IsOk(e) THEN e
                   ELSE IF e[2][1] = "Blob" THEN Ok(e[2][2])
                   ELSE Err("ValueIsNotABlob")

get_history(commit_hash, key) ==
    LET commit == get_commit(Mem, commit_hash) IN
    IF ~IsOk(commit) THEN commit
    ELSE get_from_tree(Mem, commit[2].root_hash, key)

(***************************************************************************)
(* Staging area                                                            *)
(***************************************************************************)
increase_refcnt_for_staging_entry(m, hash) ==
    LET i == staged_get_idx(m, hash) IN
    IF i = -1 THEN R(m, "Panic", "staged_get_idx")
    ELSE IF i = 0 THEN R(m, "Err", "EntryNotFoundInStaging")
    ELSE R([m EXCEPT !.staged[i][2] = @ + 1], "Ok", i)

put_to_staging_area(m, key, value) ==
    LET i == staged_get_idx(m, key) IN
    IF i = -1 THEN R(m, "Panic", "staged_get_idx")
    ELSE IF i > 0 THEN increase_refcnt_for_staging_entry(m, key)
    ELSE LET idx == Len(m.staged) + 1 IN
         R([m EXCEPT !.staged = Append(@, <<key, 1, value>>),
                     !.staged_indices =
                         [h \in DOMAIN @ \cup {key} |->
                             IF h = key THEN idx ELSE @[h]]],
           "Ok", idx)

add_empty_tree_to_staging(m) ==
    put_to_staging_area(m, hash_tree(EmptyTree), TreeEntry(EmptyTree))

ensure_stage_tree_exists(m) ==
    IF m.cst = None
    THEN put_to_staging_area(
             [m EXCEPT !.cst = Some(EmptyTree),
                       !.csth = Some(hash_tree(EmptyTree))],
             hash_tree(EmptyTree), TreeEntry(EmptyTree))
    ELSE R(m, "Ok", 0)

\* val: index of the tree found in m.staged, 0 for None
RECURSIVE find_tree_staging(_, _, _)
find_tree_staging(m, root_idx, key) ==
    IF key = <<>> THEN R(m, "Ok", root_idx)
    ELSE LET root == m.staged[root_idx][3] IN
    IF root[1] # "Tree" THEN R(m, "Ok", 0)
    ELSE IF Head(key) \notin DOMAIN root[2] THEN R(m, "Ok", 0)
    ELSE
      LET entry_hash == root[2][Head(key)].entry_hash
          i == staged_get_idx(m, entry_hash)
          fromdb == get_entry_db(entry_hash)
          got == IF i = -1 THEN R(m, "Panic", "staged_get_idx")
                 ELSE IF i > 0 THEN R(m, "Ok", i)
                 ELSE IF ~IsOk(fromdb) THEN R(m, "Err", fromdb[2])
                 ELSE put_to_staging_area(m, entry_hash, fromdb[2])
      IN
      IF got.tag # "Ok" THEN got
      ELSE LET entry == got.m.staged[got.val][3] IN
           CASE entry[1] = "Tree" ->
                    IF Len(key) = 1 THEN got
                    ELSE find_tree_staging(got.m, got.val, Tail(key))
             [] entry[1] = "Blob" -> R(got.m, "Ok", 0)
             [] entry[1] = "Commit" ->
                    R(got.m, "Err", "FoundUnexpectedStructure")

\* new_node: None for deletion, Some(node) for insertion.  The function is
\* written as its successive steps, each taking the results of the steps
\* before it.
RECURSIVE compute_new_root_with_change(_, _, _, _)

\* lines 755-767: m4r is the outcome of re-indexing the modified tree
cnr_walk_up(m4r, root_hash, path, tree, new_tree_hash) ==
    IF m4r.tag # "Ok" THEN m4r
    ELSE IF path = <<>> THEN R(m4r.m, "Ok", new_tree_hash)
    ELSE IF DOMAIN tree = {}
    THEN compute_new_root_with_change(m4r.m, root_hash, path, None)
    ELSE compute_new_root_with_change(m4r.m, root_hash, path,
                                      Some(get_non_leaf(new_tree_hash)))

\* lines 727-753: the entry at idx takes the new hash; staged_indices follows
cnr_reindex(m2, root_hash, path, idx, in_place, tree, new_tree_hash) ==
    LET old_hash == m2.staged[idx][1]
        indices1 == IF in_place
                    THEN [h \in DOMAIN m2.staged_indices \ {old_hash} |->
                             m2.staged_indices[h]]
                    ELSE m2.staged_indices
        m3 == [m2 EXCEPT !.staged[idx] = <<new_tree_hash, @[2], TreeEntry(tree)>>,
                         !.staged_indices = indices1]
    IN
    cnr_walk_up(
        IF new_tree_hash \in DOMAIN indices1
        THEN increase_refcnt_for_staging_entry(m3, new_tree_hash)
        ELSE R([m3 EXCEPT !.staged_indices =
                   [h \in DOMAIN indices1 \cup {new_tree_hash} |->
                       IF h = new_tree_hash THEN idx ELSE indices1[h]]],
               "Ok", idx),
        root_hash, path, tree, new_tree_hash)

\* line 727: the hash of the modified tree
cnr_rehash(m2, root_hash, path, idx, in_place, tree) ==
    cnr_reindex(m2, root_hash, path, idx, in_place, tree, hash_tree(tree))

\* lines 716-725: the modification of the tree held at idx
cnr_modify(m2, root_hash, path, last, new_node, idx, in_place) ==
    LET entry == m2.staged[idx][3] IN
    IF entry[1] # "Tree" THEN R(m2, "Panic", "Entry is not a Tree")
    ELSE cnr_rehash(m2, root_hash, path, idx, in_place,
             IF new_node = None THEN TreeRemove(entry[2], last)
             ELSE TreeInsert(entry[2], last, new_node[1]))

\* lines 700-714: modify in place, or push a copy with refcnt 1 and modify it
cnr_place(located, root_hash, path, last, new_node, empty_tree_existed) ==
    IF located.tag # "Ok" THEN located
    ELSE
    LET m1 == located.m
        refcnt == m1.staged[located.val][2]
        in_place == ~(refcnt > 1 \/ empty_tree_existed)
    IN
    cnr_modify(
        IF in_place THEN m1
        ELSE [m1 EXCEPT !.staged = Append(@,
                 <<m1.staged[located.val][1], 1, m1.staged[located.val][3]>>)],
        root_hash, path, last, new_node,
        IF in_place THEN located.val ELSE Len(m1.staged) + 1,
        in_place)

\* lines 684-696: found is the outcome of find_tree_staging
cnr_locate(found, root_hash, path, last, new_node) ==
    IF found.tag # "Ok" THEN found
    ELSE
    LET idx_of_empty_tree == staged_get_idx(found.m, hash_tree(EmptyTree)) IN
    cnr_place(
        IF found.val # 0 THEN found
        ELSE IF idx_of_empty_tree = -1
        THEN R(found.m, "Panic", "staged_get_idx")
        ELSE IF idx_of_empty_tree > 0
        THEN R(found.m, "Ok", idx_of_empty_tree)
        ELSE add_empty_tree_to_staging(found.m),
        root_hash, path, last, new_node,
        found.val = 0 /\ idx_of_empty_tree > 0)

compute_new_root_with_change(m, root_hash, key, new_node) ==
    IF key = <<>> THEN R(m, "Panic", "assert_eq key.is_empty()")
    ELSE IF staged_get_idx(m, root_hash) <= 0
    THEN R(m, "Panic", "root tree not in staging area")
    ELSE cnr_locate(
             find_tree_staging(m, staged_get_idx(m, root_hash),
                               SubSeq(key, 1, Len(key) - 1)),
             root_hash, SubSeq(key, 1, Len(key) - 1), key[Len(key)],
             new_node)

(***************************************************************************)
(* Replay of the action log                                                *)
(***************************************************************************)
SetAction(key, value) == <<"Set", key, value>>
CopyAction(from_key, to_key) == <<"Copy", from_key, to_key>>
RemoveAction(key) == <<"Remove", key>>

\* a failed Result r of a read, as the outcome of a step on m
Fail(m, r) == R(m, r[1], r[2])

\* the tail shared by the three arms: load the new root, remember its hash
SetStageTree(c) ==
    IF c.tag # "Ok" THEN c
    ELSE LET t == get_tree(c.m, c.val) IN
         IF ~IsOk(t) THEN Fail(c.m, t)
         ELSE R([c.m EXCEPT !.cst = Some(t[2]), !.csth = Some(c.val)],
                "Ok", c.val)

\* lines 603-610: the root is staged once more, then the tree is changed
ApplySetChange(p2, root_hash, key, blob_hash) ==
    IF p2.tag # "Ok" THEN p2
    ELSE SetStageTree(compute_new_root_with_change(
             p2.m, root_hash, key, Some(Leaf(blob_hash))))

ApplySetRoot(m, root, root_hash, key, blob_hash) ==
    IF ~IsOk(root) THEN Fail(m, root)
    ELSE ApplySetChange(put_to_staging_area(m, root_hash, root[2]),
                        root_hash, key, blob_hash)

\* lines 599-603: p1 is the outcome of staging the blob
ApplySetBlob(p1, root_hash, key, blob_hash) ==
    IF p1.tag # "Ok" THEN p1
    ELSE ApplySetRoot(p1.m, get_entry(p1.m, root_hash), root_hash, key,
                      blob_hash)

ApplySet(m, key, value) ==
    ApplySetBlob(put_to_staging_area(m, hash_blob(value), BlobEntry(value)),
                 m.csth[1], key, hash_blob(value))

ApplyCopy(m, from_key, to_key) ==
    LET root_hash == m.csth[1]
        root == get_entry(m, root_hash)
    IN
    IF ~IsOk(root) THEN Fail(m, root)
    ELSE IF root[2][1] # "Tree" THEN R(m, "Panic", "Action Copy(): not a tree")
    ELSE LET source_tree == find_tree(m, root[2][2], from_key) IN
         IF ~IsOk(source_tree) THEN Fail(m, source_tree)
         ELSE SetStageTree(compute_new_root_with_change(
                  m, root_hash, to_key,
                  Some(get_non_leaf(hash_tree(source_tree[2])))))

ApplyRemove(m, key) ==
    SetStageTree(compute_new_root_with_change(m, m.csth[1], key, None))

ApplyAction(m, action) ==
    CASE action[1] = "Set" -> ApplySet(m, action[2], action[3])
      [] action[1] = "Copy" -> ApplyCopy(m, action[2], action[3])
      [] action[1] = "Remove" -> ApplyRemove(m, action[2])

RECURSIVE ApplyActions(_, _)
\* r is the outcome of the action before rest
ApplyRest(r, rest) ==
    IF r.tag # "Ok" THEN r ELSE ApplyActions(r.m, rest)

ApplyActions(m, acts) ==
    IF acts = <<>> THEN R(m, "Ok", 0)
    ELSE ApplyRest(ApplyAction(m, Head(acts)), Tail(acts))

apply_actions_to_staging_area(m, acts) ==
    LET e == ensure_stage_tree_exists(m) IN
    IF e.tag # "Ok" THEN e ELSE ApplyActions(e.m, acts)

(***************************************************************************)
(* Persisting a commit                                                     *)
(***************************************************************************)
\* the WriteBatch: the sequence of (key, value) puts, in the order made
RECURSIVE get_entries_recursively(_, _)
RECURSIVE BatchChildren(_, _, _)
BatchChildren(m, tree, i) ==
    IF i > Len(SegOrder) THEN Ok(<<>>)
    ELSE LET rest == BatchChildren(m, tree, i + 1)
             hash == tree[SegOrder[i]].entry_hash
             idx == staged_get_idx(m, hash)
         IN
         IF SegOrder[i] \notin DOMAIN tree THEN rest
         ELSE IF idx = -1 THEN Panic("staged_get_idx")
         ELSE IF idx = 0 THEN rest
         ELSE LET sub == get_entries_recursively(m, m.staged[idx][3]) IN
              IF ~IsOk(sub) THEN sub
              ELSE IF ~IsOk(rest) THEN rest
              ELSE Ok(sub[2] \o rest[2])

get_entries_recursively(m, entry) ==
    LET put == <<hash_entry(entry), entry>> IN
    CASE entry[1] = "Blob" -> Ok(<<put>>)
      [] entry[1] = "Tree" ->
            LET below == BatchChildren(m, entry[2], 1) IN
            IF ~IsOk(below) THEN below ELSE Ok(<<put>> \o below[2])
      [] entry[1] = "Commit" ->
            LET root == get_entry(m, entry[2].root_hash) IN
            IF ~IsOk(root) THEN root
            ELSE LET below == get_entries_recursively(m, root[2]) IN
                 IF ~IsOk(below) THEN below ELSE Ok(<<put>> \o below[2])

RECURSIVE write_batch(_, _)
write_batch(store, batch) ==
    IF batch = <<>> THEN store
    ELSE write_batch(
             [h \in DOMAIN store \cup {batch[1][1]} |->
                 IF h = batch[1][1] THEN batch[1][2] ELSE store[h]],
             Tail(batch))

(***************************************************************************)
(* Reference semantics of the three mutations on a key-to-value map        *)
(***************************************************************************)
IsPrefix(p, k) == Len(p) <= Len(k) /\ SubSeq(k, 1, Len(p)) = p
Related(p, k) == IsPrefix(p, k) \/ IsPrefix(k, p)
Restrict(mm, keep) == [k \in keep |-> mm[k]]

RefSet(mm, key, value) ==
    LET keep == {k \in DOMAIN mm : ~Related(k, key)} IN
    [k \in keep \cup {key} |-> IF k = key THEN value ELSE mm[k]]

RefDelete(mm, key) == Restrict(mm, {k \in DOMAIN mm : ~IsPrefix(key, k)})

RefCopy(mm, from_key, to_key) ==
    LET src == {k \in DOMAIN mm : IsPrefix(from_key, k) /\ k # from_key}
        keep == {k \in DOMAIN mm : ~Related(k, to_key)}
        moved(k) == to_key \o SubSeq(k, Len(from_key) + 1, Len(k))
        new == {moved(k) : k \in src}
    IN
    [k \in keep \cup new |->
        IF k \in new
        THEN mm[CHOOSE x \in src : moved(x) = k]
        ELSE mm[k]]

\* direct bottom-up hashing of the tree that holds exactly the map mm
RECURSIVE BuildTree(_, _)
BuildTree(mm, prefix) ==
    LET below(s) == {k \in DOMAIN mm : IsPrefix(Append(prefix, s), k)} IN
    [s \in {x \in Segs : below(x) # {}} |->
        IF Append(prefix, s) \in DOMAIN mm
        THEN Leaf(hash_blob(mm[Append(prefix, s)]))
        ELSE get_non_leaf(hash_tree(BuildTree(mm, Append(prefix, s))))]

\* the map a commit holds, as get_history reads it: the keys whose path
\* resolves through trees to a blob
RECURSIVE WalkMap(_, _, _)
WalkMap(m, tree, prefix) ==
    LET entry(s) == get_entry(m, tree[s].entry_hash)
        blobs == {s \in DOMAIN tree : IsOk(entry(s)) /\ entry(s)[2][1] = "Blob"}
        trees == {s \in DOMAIN tree : IsOk(entry(s)) /\ entry(s)[2][1] = "Tree"}
        sub(s) == WalkMap(m, entry(s)[2][2], Append(prefix, s))
        below == UNION {{<<k, sub(s)[k]>> : k \in DOMAIN sub(s)} : s \in trees}
        here == {<<Append(prefix, s), entry(s)[2][2]>> : s \in blobs}
        pairs == here \cup below
    IN
    [k \in {p[1] : p \in pairs} |-> (CHOOSE p \in pairs : p[1] = k)[2]]

ReadMap(commit_hash) ==
    LET commit == get_commit(Mem, commit_hash)
        root == get_tree(Mem, commit[2].root_hash)
    IN
    IF IsOk(commit) /\ IsOk(root) THEN WalkMap(Mem, root[2], <<>>)
    ELSE [k \in {} |-> 0]

(***************************************************************************)
(* Public operations                                                       *)
(***************************************************************************)
NoFunction == [h \in {} |-> 0]

MerkleInit ==
    /\ current_stage_tree = None
    /\ current_stage_tree_hash = None
    /\ db = NoFunction
    /\ staged = <<>>
    /\ staged_indices = NoFunction
    /\ last_commit_hash = None
    /\ actions = <<>>
    /\ poisoned = FALSE
    /\ lastOp = [op |-> "new"]
    /\ returned = {}
    /\ model_map = NoFunction
    /\ model_ok = TRUE
    /\ nops = 0
    /\ ncommits = 0
    /\ ncheckouts = 0
    /\ nfailures = 0

\* no entry is being hashed on its own
HasherIdle ==
    /\ hash_arg = <<>>
    /\ hash_fed = <<>>
    /\ hash_out = <<>>

\* no chain manager is running
ChainIdle ==
    /\ cm = <<>>
    /\ storage = <<>>
    /\ sys = <<>>
    /\ handled = 0

Init == MerkleInit /\ HasherIdle /\ ChainIdle

StoreUnchanged ==
    UNCHANGED <<current_stage_tree, current_stage_tree_hash, db, staged,
                staged_indices, last_commit_hash>>

SetMem(m) ==
    /\ current_stage_tree' = m.cst
    /\ current_stage_tree_hash' = m.csth
    /\ staged' = m.staged
    /\ staged_indices' = m.staged_indices

Set(key, value) ==
    /\ ~poisoned
    /\ nops < MaxOps
    /\ actions' = Append(actions, SetAction(key, value))
    /\ StoreUnchanged
    /\ lastOp' = [op |-> "set", key |-> key, value |-> value]
    /\ model_map' = RefSet(model_map, key, value)
    /\ nops' = nops + 1
    /\ UNCHANGED <<poisoned, returned, model_ok, ncommits, ncheckouts,
                   nfailures, other_vars>>

Delete(key) ==
    /\ ~poisoned
    /\ nops < MaxOps
    /\ actions' = Append(actions, RemoveAction(key))
    /\ StoreUnchanged
    /\ lastOp' = [op |-> "delete", key |-> key]
    /\ model_map' = RefDelete(model_map, key)
    /\ nops' = nops + 1
    /\ UNCHANGED <<poisoned, returned, model_ok, ncommits, ncheckouts,
                   nfailures, other_vars>>

Copy(from_key, to_key) ==
    /\ ~poisoned
    /\ nops < MaxOps
    /\ actions' = Append(actions, CopyAction(from_key, to_key))
    /\ StoreUnchanged
    /\ lastOp' = [op |-> "copy", from_key |-> from_key, to_key |-> to_key]
    /\ model_map' = RefCopy(model_map, from_key, to_key)
    /\ nops' = nops + 1
    /\ UNCHANGED <<poisoned, returned, model_ok, ncommits, ncheckouts,
                   nfailures, other_vars>>

\* get: the staged root is hashed and the key is read from that tree
get_staged_root(m) ==
    IF m.cst = None
    THEN LET p == put_to_staging_area(m, hash_tree(EmptyTree),
                                      TreeEntry(EmptyTree))
         IN R(p.m, p.tag, IF p.tag = "Ok" THEN EmptyTree ELSE p.val)
    ELSE R(m, "Ok", m.cst[1])

get(m, key) ==
    LET root == get_staged_root(m) IN
    IF root.tag # "Ok" THEN root
    ELSE LET rv == get_from_tree(root.m, hash_tree(root.val), key) IN
         R(root.m, rv[1], rv[2])

\* the result get(key) returns in the current state
get_result(key) == LET g == get(Mem, key) IN <<g.tag, g.val>>

Get(key) ==
    /\ ~poisoned
    /\ current_stage_tree = None
    /\ \A i \in 1..Len(staged) : staged[i][2] < MaxEmptyTreeRefs
    /\ LET g == get(Mem, key) IN
       /\ SetMem(g.m)
       /\ poisoned' = (g.tag = "Panic")
    /\ UNCHANGED <<db, last_commit_hash, actions, lastOp, returned,
                   model_map, model_ok, nops, ncommits, ncheckouts,
                   nfailures, other_vars>>

CommitFailed(m, acts, res) ==
    /\ res = Err("DBError") => nfailures < MaxWriteFailures
    /\ nfailures' = IF res = Err("DBError") THEN nfailures + 1 ELSE nfailures
    /\ SetMem(m)
    /\ actions' = acts
    /\ lastOp' = [op |-> "commit", res |-> res]
    /\ poisoned' = (res[1] = "Panic")
    /\ model_ok' = FALSE
    /\ UNCHANGED <<db, last_commit_hash, returned, model_map>>

CommitDone(m, commit_hash, batch) ==
    /\ db' = write_batch(db, batch)
    /\ staged' = <<>>
    /\ staged_indices' = NoFunction
    /\ current_stage_tree' = m.cst
    /\ current_stage_tree_hash' = m.csth
    /\ last_commit_hash' = Some(commit_hash)
    /\ actions' = <<>>
    /\ returned' = returned \cup {commit_hash}
    /\ lastOp' = [op |-> "commit", res |-> Ok(commit_hash),
                  expected |-> model_map, judged |-> model_ok]
    /\ model_map' = ReadMap(commit_hash)'
    /\ model_ok' = TRUE
    /\ UNCHANGED <<poisoned, nfailures>>

\* line 504: the batch write fails or succeeds, the backend decides
CommitWrite(m, new_commit, batch) ==
    IF ~IsOk(batch) THEN CommitFailed(m, <<>>, batch)
    ELSE \/ CommitFailed(m, <<>>, Err("DBError"))
         \/ CommitDone(m, hash_commit(new_commit), batch[2])

\* lines 503-504: p is the outcome of staging the commit entry
CommitPersist(p, new_commit) ==
    IF p.tag # "Ok" THEN CommitFailed(p.m, <<>>, <<p.tag, p.val>>)
    ELSE CommitWrite(p.m, new_commit,
                     get_entries_recursively(p.m, CommitEntry(new_commit)))

\* lines 494-503
CommitStage(m, new_commit) ==
    CommitPersist(put_to_staging_area(m, hash_commit(new_commit),
                                      CommitEntry(new_commit)),
                  new_commit)

\* lines 488-492: a is the outcome of apply_actions_to_staging_area
CommitApplied(a, time) ==
    IF a.tag = "Panic" THEN CommitFailed(Mem, actions, <<a.tag, a.val>>)
    ELSE IF a.tag = "Err" THEN CommitFailed(a.m, actions, <<a.tag, a.val>>)
    ELSE LET staged_root == get_staged_root(a.m) IN
         CommitStage(staged_root.m,
                     [parent_commit_hash |-> last_commit_hash,
                      root_hash |-> hash_tree(staged_root.val),
                      time |-> time,
                      author |-> "Tezos",
                      message |-> ""])

Commit(time) ==
    /\ ~poisoned
    /\ ncommits < MaxCommits
    /\ ncommits' = ncommits + 1
    /\ UNCHANGED <<nops, ncheckouts, other_vars>>
    /\ CommitApplied(apply_actions_to_staging_area(Mem, actions), time)

\* hashes a caller can hold: of stored or staged commits, and an unknown one
UnknownHash == hash_blob(<<9>>)
KnownHashes ==
    {h \in DOMAIN db \cup DOMAIN staged_indices : h[1] = "C"} \cup {UnknownHash}

Checkout(context_hash) ==
    /\ ~poisoned
    /\ ncheckouts < MaxCheckouts
    /\ ncheckouts' = ncheckouts + 1
    /\ UNCHANGED <<db, actions, returned, nops, ncommits, nfailures,
                   other_vars>>
    /\ LET commit == get_commit(Mem, context_hash)
           tree == get_tree(Mem, commit[2].root_hash)
           res == IF ~IsOk(commit) THEN commit
                  ELSE IF ~IsOk(tree) THEN tree
                  ELSE Ok(context_hash)
       IN
       /\ lastOp' = [op |-> "checkout", hash |-> context_hash, res |-> res,
                     pending |-> Len(actions)]
       /\ poisoned' = (res[1] = "Panic")
       /\ IF IsOk(res)
          THEN /\ current_stage_tree' = Some(tree[2])
               /\ current_stage_tree_hash' = Some(commit[2].root_hash)
               /\ last_commit_hash' = Some(context_hash)
               /\ staged' = <<>>
               /\ staged_indices' = NoFunction
               /\ model_map' = ReadMap(context_hash)'
               /\ model_ok' = (actions = <<>>)
          ELSE UNCHANGED <<current_stage_tree, current_stage_tree_hash,
                           last_commit_hash, staged, staged_indices,
                           model_map, model_ok>>

Next ==
    \/ \E key \in Keys, value \in Values : Set(key, value)
    \/ \E key \in Keys : Delete(key)
    \/ \E from_key \in Keys, to_key \in Keys : Copy(from_key, to_key)
    \/ \E key \in Keys : Get(key)
    \/ \E time \in Times : Commit(time)
    \/ \E context_hash \in KnownHashes : Checkout(context_hash)

Spec == Init /\ [][Next]_vars

(***************************************************************************)
(* Observations used by the properties                                     *)
(***************************************************************************)
CommitStep == ncommits' # ncommits
CommittedOk == lastOp.op = "commit" /\ IsOk(lastOp.res)
\* the last call was a successful checkout of a commit that commit returned
CheckedOutOk ==
    lastOp.op = "checkout" /\ IsOk(lastOp.res) /\ lastOp.hash \in returned
root_hash_of(commit_hash) == get_commit(Mem, commit_hash)[2].root_hash
LastCommitRoot == root_hash_of(lastOp.res[2])

\* every hash below tree resolves in the KV backend
RECURSIVE TreeClosed(_)
TreeClosed(tree) ==
    \A s \in DOMAIN tree :
        LET h == tree[s].entry_hash IN
        /\ h \in DOMAIN db
        /\ db[h][1] = "Tree" => TreeClosed(db[h][2])

CommitClosed(c) ==
    /\ c \in DOMAIN db
    /\ db[c][1] = "Commit"
    /\ db[c][2].root_hash \in DOMAIN db
    /\ db[db[c][2].root_hash][1] = "Tree"
    /\ TreeClosed(db[db[c][2].root_hash][2])

\* no NonLeaf node of tree, or of a tree below it, references the empty tree
RECURSIVE NoEmptyTreeBelow(_)
NoEmptyTreeBelow(tree) ==
    \A s \in DOMAIN tree :
        LET n == tree[s] IN
        n.node_kind = "NonLeaf" =>
            /\ n.entry_hash # hash_tree(EmptyTree)
            /\ (n.entry_hash \in DOMAIN db /\ db[n.entry_hash][1] = "Tree")
                  => NoEmptyTreeBelow(db[n.entry_hash][2])

(***************************************************************************)
(* Properties                                                              *)
(***************************************************************************)

\* C1: checkout(C) followed immediately by commit returns C itself and
\* writes no new entry to the store.
C1_EmptyCommitReturnsPrevious ==
    [][(CheckedOutOk /\ CommitStep /\ IsOk(lastOp'.res))
          => (lastOp'.res[2] = lastOp.hash /\ db' = db)]_vars

\* C2: for every hash C a commit has returned, no later step changes the
\* result of get_history(C, k), for any key k.
C2_HistoryIsImmutable ==
    [][\A c \in returned : \A k \in ReadKeys :
          get_history(c, k)' = get_history(c, k)]_vars

\* C3: every hash reachable from a returned commit resolves in the KV
\* backend, and its root_hash resolves to a Tree.
C3_CommitClosureIsPersisted == \A c \in returned : CommitClosed(c)

\* C4: get_history on the new commit reads exactly the reference map: the
\* map of the base commit with the staged calls applied in order; a key
\* absent from the reference map yields an error.
C4_CommitMatchesReferenceMap ==
    (CommittedOk /\ lastOp.judged) =>
        \A k \in ReadKeys :
            IF k \in DOMAIN lastOp.expected
            THEN get_history(lastOp.res[2], k) = Ok(lastOp.expected[k])
            ELSE ~IsOk(get_history(lastOp.res[2], k))

\* C5: the root hash of the new commit is the hash of the tree built
\* directly, bottom-up, from the resulting key-to-value map.
C5_RootHashIsDirectHash ==
    (CommittedOk /\ lastOp.judged) =>
        LastCommitRoot = hash_tree(BuildTree(lastOp.expected, <<>>))

\* C6: no tree reachable from a committed root is empty.
C6_NoEmptyTreeReachable ==
    \A c \in returned :
        LET root == get_tree(Mem, root_hash_of(c)) IN
        IsOk(root) => NoEmptyTreeBelow(root[2])

\* C7: after checkout(C) get reads exactly the tree of C, and a commit that
\* follows holds the root of C: no mutation staged before the checkout.
C7_CheckoutDiscardsStaged ==
    [][/\ (CheckedOutOk' /\ ncheckouts' # ncheckouts)
            => \A k \in ReadKeys :
                  get_result(k)' = get_history(lastOp.hash, k)'
       /\ (CheckedOutOk /\ CommitStep /\ IsOk(lastOp'.res))
            => LastCommitRoot' = root_hash_of(lastOp.hash)]_vars

\* C8: get reads the staged state: after set(k, v), get(k) returns v, and
\* after copy(from, to), get(to/s) returns the value staged at from/s.
C8_GetReadsStagedState ==
    /\ lastOp.op = "set" => get_result(lastOp.key) = Ok(lastOp.value)
    /\ (lastOp.op = "copy" /\ model_ok) =>
          \A k \in DOMAIN model_map :
              IsPrefix(lastOp.to_key, k) => get_result(k) = Ok(model_map[k])

\* C9: get_history(h, k) returns a value only for a hash h that a successful
\* commit returned.
C9_HistoryOnlyOfReturnedCommits ==
    \A h \in DOMAIN db \cup DOMAIN staged_indices : \A k \in ReadKeys :
        IsOk(get_history(h, k)) => h \in returned

\* C10: a commit whose batch write fails returns DBError and leaves the KV
\* backend, last_commit_hash and the results of get as they were.
C10_FailedWriteChangesNothing ==
    [][(CommitStep /\ lastOp'.res = Err("DBError"))
          => /\ db' = db
             /\ last_commit_hash' = last_commit_hash
             /\ \A k \in ReadKeys : get_result(k)' = get_result(k)]_vars

(***************************************************************************)
(* The store called with keys that may be empty                            *)
(***************************************************************************)
KeysOrEmpty == Keys \cup {<<>>}

NextEmptyKey ==
    \/ \E key \in KeysOrEmpty, value \in Values : Set(key, value)
    \/ \E key \in KeysOrEmpty : Delete(key)
    \/ \E from_key \in KeysOrEmpty, to_key \in KeysOrEmpty :
           Copy(from_key, to_key)
    \/ \E key \in KeysOrEmpty : Get(key)
    \/ \E time \in Times : Commit(time)
    \/ \E context_hash \in KnownHashes : Checkout(context_hash)

SpecEmptyKey == Init /\ [][NextEmptyKey]_vars

\* the key an action changes: the key of a Set or Remove, the to_key of a Copy
changed_key(action) == IF action[1] = "Copy" THEN action[3] ELSE action[2]
HasEmptyKey(acts) == \E i \in 1..Len(acts) : changed_key(acts[i]) = <<>>

\* C11: a set, delete or copy with an empty (destination) key ends in an
\* error value at the following commit, never in a failed assertion.
C11_EmptyKeyIsAnError ==
    [][(CommitStep /\ HasEmptyKey(actions)) => lastOp'.res[1] = "Err"]_vars

(***************************************************************************)
(* What a key denotes in a stored tree, read off the entries directly      *)
(***************************************************************************)
\* the entry stored under hash, in the staging area or in the KV backend
Stored(m, hash) ==
    IF hash \in DOMAIN m.staged_indices
    THEN Some(m.staged[m.staged_indices[hash]][3])
    ELSE IF hash \in DOMAIN db THEN Some(db[hash]) ELSE None

\* "NoNode": the tree has no node at key; "Missing": a hash on the way is
\* stored nowhere; otherwise the kind of the entry at key
RECURSIVE Classify(_, _, _)
Classify(m, tree, key) ==
    IF Head(key) \notin DOMAIN tree THEN "NoNode"
    ELSE LET e == Stored(m, tree[Head(key)].entry_hash) IN
         IF e = None THEN "Missing"
         ELSE IF Len(key) = 1 THEN e[1][1]
         ELSE IF e[1][1] = "Tree" THEN Classify(m, e[1][2], Tail(key))
         ELSE IF e[1][1] = "Blob" THEN "NoNode"
         ELSE "Commit"

\* res, the result of reading key in the tree under root_hash, is the error
\* that the kind of failure calls for
Classified(m, root_hash, key, res) ==
    IF key = <<>> THEN res = Err("KeyEmpty")
    ELSE LET root == Stored(m, root_hash) IN
         IF root = None THEN res = Err("EntryNotFound")
         ELSE root[1][1] = "Tree" =>
              LET c == Classify(m, root[1][2], key) IN
              /\ c = "NoNode" => res = Err("ValueNotFound")
              /\ c = "Tree" => res = Err("ValueIsNotABlob")
              /\ c = "Missing" => res = Err("EntryNotFound")
              /\ c = "Blob" => IsOk(res)

ReadKeysOrEmpty == ReadKeys \cup {<<>>}
StoredCommits == {h \in KnownHashes : Stored(Mem, h) # None}

\* C12: get and get_history report an empty key as KeyEmpty, a key with no
\* node as ValueNotFound, a key that holds a tree as ValueIsNotABlob and a
\* hash stored nowhere as EntryNotFound (never as ValueNotFound).
C12_ReadErrorsAreClassified ==
    /\ \A k \in ReadKeysOrEmpty :
          LET root == get_staged_root(Mem) IN
          Classified(root.m, hash_tree(root.val), k, get_result(k))
    /\ \A h \in KnownHashes \ StoredCommits : \A k \in ReadKeysOrEmpty :
          get_history(h, k) = Err("EntryNotFound")
    /\ \A h \in StoredCommits : \A k \in ReadKeysOrEmpty :
          Classified(Mem, root_hash_of(h), k, get_history(h, k))

\* a returned commit in which one key holds a tree, one has no node, one
\* holds a value and one runs into a hash that is stored nowhere
C12_Witness ==
    \E h \in returned :
        LET root == Stored(Mem, root_hash_of(h))
            kinds == {Classify(Mem, root[1][2], k) : k \in ReadKeys}
        IN
        /\ root # None /\ root[1][1] = "Tree"
        /\ {"NoNode", "Tree", "Missing", "Blob"} \subseteq kinds
        /\ \E k \in ReadKeys : get_history(h, k) = Err("EntryNotFound")

(***************************************************************************)
(* Prefix query.  A String is the sequence of its characters.              *)
(***************************************************************************)
\* the characters of each path segment
SegChars == [a |-> <<"a">>, b |-> <<"b">>]

\* key.join("/")
RECURSIVE key_to_string(_)
key_to_string(key) ==
    IF key = <<>> THEN <<>>
    ELSE IF Len(key) = 1 THEN SegChars[key[1]]
    ELSE SegChars[key[1]] \o <<"/">> \o key_to_string(Tail(key))

\* string.split('/'): the pieces between the separators, as Strings
RECURSIVE split_from(_, _, _)
split_from(string, i, piece) ==
    IF i > Len(string) THEN <<piece>>
    ELSE IF string[i] = "/" THEN <<piece>> \o split_from(string, i + 1, <<>>)
    ELSE split_from(string, i + 1, Append(piece, string[i]))

string_to_key(string) == split_from(string, 1, <<>>)

\* the pairs below entry, in iteration order; path is a String
RECURSIVE get_key_values_from_tree_recursively(_, _, _)
RECURSIVE KeyValuesOfChildren(_, _, _, _)
KeyValuesOfChildren(m, path, tree, i) ==
    IF i > Len(SegOrder) THEN Ok(<<>>)
    ELSE IF SegOrder[i] \notin DOMAIN tree
    THEN KeyValuesOfChildren(m, path, tree, i + 1)
    ELSE LET child == get_entry(m, tree[SegOrder[i]].entry_hash)
             fullpath == path \o <<"/">> \o SegChars[SegOrder[i]]
             here == IF ~IsOk(child) THEN Ok(<<>>)
                     ELSE get_key_values_from_tree_recursively(
                              m, fullpath, child[2])
             rest == KeyValuesOfChildren(m, path, tree, i + 1)
         IN
         IF ~IsOk(here) THEN here
         ELSE IF ~IsOk(rest) THEN rest
         ELSE Ok(here[2] \o rest[2])

get_key_values_from_tree_recursively(m, path, entry) ==
    CASE entry[1] = "Blob" -> Ok(<<<<string_to_key(path), entry[2]>>>>)
      [] entry[1] = "Tree" -> KeyValuesOfChildren(m, path, entry[2], 1)
      [] entry[1] = "Commit" ->
            LET root == get_entry(m, entry[2].root_hash) IN
            IF ~IsOk(root) THEN root
            ELSE get_key_values_from_tree_recursively(m, path, root[2])

\* the loop of _get_key_values_by_prefix over the tree found at prefix
RECURSIVE KeyValuesByPrefixLoop(_, _, _, _)
KeyValuesByPrefixLoop(m, prefix, prefixed_tree, i) ==
    IF i > Len(SegOrder) THEN Ok(<<>>)
    ELSE IF SegOrder[i] \notin DOMAIN prefixed_tree
    THEN KeyValuesByPrefixLoop(m, prefix, prefixed_tree, i + 1)
    ELSE LET entry == get_entry(m, prefixed_tree[SegOrder[i]].entry_hash)
             delimiter == IF prefix = <<>> THEN <<>> ELSE <<"/">>
             fullpath == key_to_string(prefix) \o delimiter
                           \o SegChars[SegOrder[i]]
             here == IF ~IsOk(entry) THEN entry
                     ELSE get_key_values_from_tree_recursively(
                              m, fullpath, entry[2])
             rest == KeyValuesByPrefixLoop(m, prefix, prefixed_tree, i + 1)
         IN
         IF ~IsOk(here) THEN here
         ELSE IF ~IsOk(rest) THEN rest
         ELSE Ok(here[2] \o rest[2])

\* Ok(None), Ok(Some(pairs)) or an error
get_key_values_by_prefix_in(m, root_tree, prefix) ==
    LET prefixed_tree == find_tree(m, root_tree, prefix) IN
    IF ~IsOk(prefixed_tree) THEN prefixed_tree
    ELSE LET keyvalues == KeyValuesByPrefixLoop(m, prefix, prefixed_tree[2], 1)
         IN
         IF ~IsOk(keyvalues) THEN keyvalues
         ELSE IF keyvalues[2] = <<>> THEN Ok(None)
         ELSE Ok(Some(keyvalues[2]))

get_key_values_by_prefix(context_hash, prefix) ==
    LET commit == get_commit(Mem, context_hash) IN
    IF ~IsOk(commit) THEN commit
    ELSE LET root_tree == get_tree(Mem, commit[2].root_hash) IN
         IF ~IsOk(root_tree) THEN root_tree
         ELSE get_key_values_by_prefix_in(Mem, root_tree[2], prefix)

\* segment-lexicographic order of keys
SegIndex(seg) == CHOOSE i \in 1..Len(SegOrder) : SegOrder[i] = seg
RECURSIVE KeyLess(_, _)
KeyLess(k1, k2) ==
    IF k1 = <<>> THEN k2 # <<>>
    ELSE IF k2 = <<>> THEN FALSE
    ELSE IF Head(k1) = Head(k2) THEN KeyLess(Tail(k1), Tail(k2))
    ELSE SegIndex(Head(k1)) < SegIndex(Head(k2))

RECURSIVE SortKeys(_)
SortKeys(ks) ==
    IF ks = {} THEN <<>>
    ELSE LET least == CHOOSE k \in ks : \A o \in ks \ {k} : KeyLess(k, o) IN
         <<least>> \o SortKeys(ks \ {least})

KeyChars(key) == [i \in 1..Len(key) |-> SegChars[key[i]]]

\* the pairs (k, v) with prefix a strict prefix of k and get_history(h, k) = v
PairsBelow(h, prefix) ==
    LET sorted == SortKeys({k \in ReadKeys :
                      /\ IsPrefix(prefix, k) /\ k # prefix
                      /\ IsOk(get_history(h, k))})
    IN [i \in 1..Len(sorted) |->
           <<KeyChars(sorted[i]), get_history(h, sorted[i])[2]>>]

PrefixKeys == KeysUpTo(MaxOps) \cup {<<>>}

\* C13: get_key_values_by_prefix(C, p) returns exactly the pairs (k, v) with
\* p a strict prefix of k and get_history(C, k) = v, in segment-lexicographic
\* order, and the empty result when there is none.
C13_PrefixQueryReturnsAllPairs ==
    \A h \in returned : \A prefix \in PrefixKeys :
        get_key_values_by_prefix(h, prefix) =
            IF PairsBelow(h, prefix) = <<>> THEN Ok(None)
            ELSE Ok(Some(PairsBelow(h, prefix)))

(***************************************************************************)
(* The bytes behind a hash.  hash_tree and hash_blob above stand for the   *)
(* digest of the bytes fed to the hasher; the operators below give those   *)
(* bytes and the digest itself.                                            *)
(***************************************************************************)
HASH_LEN == 32

\* to_be_bytes: n in width bytes, most significant byte first
RECURSIVE to_be_bytes(_, _)
to_be_bytes(n, width) ==
    IF width = 0 THEN <<>>
    ELSE Append(to_be_bytes(n \div 256, width - 1), n % 256)

u64_be(n) == to_be_bytes(n, 8)

\* String::into_bytes for the segments that are hashed
SegmentBytes ==
    [a |-> <<97>>, b |-> <<98>>, x |-> <<120>>, aaa |-> <<97, 97, 97>>,
     boo |-> <<98, 111, 111>>, foo |-> <<102, 111, 111>>,
     one |-> <<111, 110, 101>>, two |-> <<116, 119, 111>>,
     three |-> <<116, 104, 114, 101, 101>>]

into_bytes(segment) == SegmentBytes[segment]

\* Ord of String: byte by byte, a proper prefix comes first
RECURSIVE BytesLess(_, _)
BytesLess(s, t) ==
    IF t = <<>> THEN FALSE
    ELSE IF s = <<>> THEN TRUE
    ELSE IF s[1] # t[1] THEN s[1] < t[1]
    ELSE BytesLess(Tail(s), Tail(t))

StringLess(k1, k2) == BytesLess(into_bytes(k1), into_bytes(k2))

\* BTreeMap::iter visits the keys in ascending order
first_key(ks) == CHOOSE k \in ks : \A o \in ks \ {k} : StringLess(k, o)

RECURSIVE tree_iter(_)
tree_iter(ks) ==
    IF ks = {} THEN <<>>
    ELSE <<first_key(ks)>> \o tree_iter(ks \ {first_key(ks)})

\* encode_irmin_node_kind with a Leaf tagged like a NonLeaf
encode_irmin_node_kind_all_zero(kind) == <<0, 0, 0, 0, 0, 0, 0, 0>>

encode_irmin_node_kind(kind) ==
    IF kind = "NonLeaf" THEN <<0, 0, 0, 0, 0, 0, 0, 0>>
    ELSE <<255, 0, 0, 0, 0, 0, 0, 0>>

(***************************************************************************)
(* BLAKE2b with a 32-byte digest (VarBlake2b::new(HASH_LEN), RFC 7693).    *)
(* A 64-bit word is four 16-bit limbs, least significant limb first, so    *)
(* that every intermediate value fits TLC's integers.                      *)
(***************************************************************************)
LimbBase == 65536
OnesWord == <<65535, 65535, 65535, 65535>>

RECURSIVE XorBits(_, _, _)
XorBits(a, b, n) ==
    IF n = 0 THEN 0
    ELSE ((a + b) % 2) + 2 * XorBits(a \div 2, b \div 2, n - 1)

XorNibble == [a \in 0..15 |-> [b \in 0..15 |-> XorBits(a, b, 4)]]

XorLimb(a, b) ==
    XorNibble[a % 16][b % 16]
      + 16 * XorNibble[(a \div 16) % 16][(b \div 16) % 16]
      + 256 * XorNibble[(a \div 256) % 16][(b \div 256) % 16]
      + 4096 * XorNibble[a \div 4096][b \div 4096]

XorWord(a, b) ==
    <<XorLimb(a[1], b[1]), XorLimb(a[2], b[2]),
      XorLimb(a[3], b[3]), XorLimb(a[4], b[4])>>

\* carry into limb i of a + b
RECURSIVE AddCarry(_, _, _)
AddCarry(a, b, i) ==
    IF i = 1 THEN 0
    ELSE (a[i - 1] + b[i - 1] + AddCarry(a, b, i - 1)) \div LimbBase

AddLimb(a, b, i) == (a[i] + b[i] + AddCarry(a, b, i)) % LimbBase
AddWord(a, b) ==
    <<AddLimb(a, b, 1), AddLimb(a, b, 2), AddLimb(a, b, 3), AddLimb(a, b, 4)>>

\* rotate right by 16, 24, 32 or 63 bits
RotrWord(w, n) ==
    CASE n = 16 -> <<w[2], w[3], w[4], w[1]>>
      [] n = 32 -> <<w[3], w[4], w[1], w[2]>>
      [] n = 24 -> <<(w[2] \div 256) + 256 * (w[3] % 256),
                     (w[3] \div 256) + 256 * (w[4] % 256),
                     (w[4] \div 256) + 256 * (w[1] % 256),
                     (w[1] \div 256) + 256 * (w[2] % 256)>>
      [] n = 63 -> <<((2 * w[1]) % LimbBase) + (w[4] \div 32768),
                     ((2 * w[2]) % LimbBase) + (w[1] \div 32768),
                     ((2 * w[3]) % LimbBase) + (w[2] \div 32768),
                     ((2 * w[4]) % LimbBase) + (w[3] \div 32768)>>

BlakeIV ==
    << <<51464, 62396, 58983, 27145>>, <<42811, 33994, 44677, 47975>>,
       <<63531, 65172, 62322, 15470>>, <<14065, 24349, 62778, 42319>>,
       <<33489, 44518, 21119, 20750>>, <<27679, 11070, 26764, 39685>>,
       <<48491, 64321, 55723, 8067>>, <<8569, 4990, 52505, 23520>> >>

\* message word schedule, as 1-based indices
BlakeSigma ==
    << <<1, 2, 3, 4, 5, 6, 7, 8, 9, 10, 11, 12, 13, 14, 15, 16>>,
       <<15, 11, 5, 9, 10, 16, 14, 7, 2, 13, 1, 3, 12, 8, 6, 4>>,
       <<12, 9, 13, 1, 6, 3, 16, 14, 11, 15, 4, 7, 8, 2, 10, 5>>,
       <<8, 10, 4, 2, 14, 13, 12, 15, 3, 7, 6, 11, 5, 1, 16, 9>>,
       <<10, 1, 6, 8, 3, 5, 11, 16, 15, 2, 12, 13, 7, 9, 4, 14>>,
       <<3, 13, 7, 11, 1, 12, 9, 4, 5, 14, 8, 6, 16, 15, 2, 10>>,
       <<13, 6, 2, 16, 15, 14, 5, 11, 1, 8, 7, 4, 10, 3, 9, 12>>,
       <<14, 12, 8, 15, 13, 2, 4, 10, 6, 1, 16, 5, 9, 7, 3, 11>>,
       <<7, 16, 15, 10, 12, 4, 1, 9, 13, 3, 14, 8, 2, 5, 11, 6>>,
       <<11, 3, 9, 5, 8, 7, 2, 6, 16, 12, 10, 15, 4, 13, 14, 1>> >>

\* the four words each of the eight mixing steps of a round works on
BlakeLanes ==
    << <<1, 5, 9, 13>>, <<2, 6, 10, 14>>, <<3, 7, 11, 15>>, <<4, 8, 12, 16>>,
       <<1, 6, 11, 16>>, <<2, 7, 12, 13>>, <<3, 8, 9, 14>>, <<4, 5, 10, 15>> >>

\* half of the mixing function G on the words <<a, b, c, d>>
MixB(a, c, d, b, r2) == <<a, RotrWord(XorWord(b, c), r2), c, d>>
MixC(a, d, c, b, r2) == MixB(a, AddWord(c, d), d, b, r2)
MixD(a, b, c, d, r1, r2) == MixC(a, RotrWord(XorWord(d, a), r1), c, b, r2)
MixHalf(q, x, r1, r2) ==
    MixD(AddWord(AddWord(q[1], q[2]), x), q[2], q[3], q[4], r1, r2)
BlakeG(q, x, y) == MixHalf(MixHalf(q, x, 32, 24), y, 16, 63)

PutLanes(v, lane, q) ==
    [v EXCEPT ![lane[1]] = q[1], ![lane[2]] = q[2],
              ![lane[3]] = q[3], ![lane[4]] = q[4]]

RECURSIVE BlakeRound(_, _, _, _)
BlakeRound(v, m, s, j) ==
    IF j > 8 \/ Len(v) # 16 THEN v
    ELSE BlakeRound(
             PutLanes(v, BlakeLanes[j],
                      BlakeG(<<v[BlakeLanes[j][1]], v[BlakeLanes[j][2]],
                               v[BlakeLanes[j][3]], v[BlakeLanes[j][4]]>>,
                             m[s[2 * j - 1]], m[s[2 * j]])),
             m, s, j + 1)

RECURSIVE BlakeRounds(_, _, _)
BlakeRounds(v, m, r) ==
    IF r = 12 THEN v
    ELSE BlakeRounds(BlakeRound(v, m, BlakeSigma[(r % 10) + 1], 1), m, r + 1)

FinishWord(h, v, i) == XorWord(XorWord(h[i], v[i]), v[i + 8])
BlakeFinish(h, v) ==
    <<FinishWord(h, v, 1), FinishWord(h, v, 2), FinishWord(h, v, 3),
      FinishWord(h, v, 4), FinishWord(h, v, 5), FinishWord(h, v, 6),
      FinishWord(h, v, 7), FinishWord(h, v, 8)>>

\* the compression function F: t is the number of bytes fed so far
BlakeCompress(h, m, t, last) ==
    BlakeFinish(h,
        BlakeRounds(
            [(h \o BlakeIV) EXCEPT
                ![13] = XorWord(BlakeIV[5],
                                <<t % LimbBase, t \div LimbBase, 0, 0>>),
                ![15] = IF last THEN XorWord(BlakeIV[7], OnesWord)
                        ELSE BlakeIV[7]],
            m, 0))

ByteAt(data, i) == IF i <= Len(data) THEN data[i] ELSE 0

\* the 16 little-endian words of block number blk (from 0), zero padded
BlockLimb(data, at) == ByteAt(data, at) + 256 * ByteAt(data, at + 1)
BlockWord(data, at) ==
    <<BlockLimb(data, at), BlockLimb(data, at + 2),
      BlockLimb(data, at + 4), BlockLimb(data, at + 6)>>
BlakeBlock(data, blk) ==
    [j \in 1..16 |-> BlockWord(data, 128 * blk + 8 * (j - 1) + 1)]

BlakeBlocks(data) ==
    IF Len(data) = 0 THEN 1 ELSE (Len(data) + 127) \div 128

RECURSIVE BlakeUpdate(_, _, _)
BlakeUpdate(h, data, blk) ==
    IF blk = BlakeBlocks(data) THEN h
    ELSE BlakeUpdate(
             BlakeCompress(h, BlakeBlock(data, blk),
                           IF 128 * (blk + 1) < Len(data)
                           THEN 128 * (blk + 1) ELSE Len(data),
                           blk + 1 = BlakeBlocks(data)),
             data, blk + 1)

\* parameter block: digest length out_len, no key, fanout 1, depth 1
BlakeInit(out_len) ==
    [BlakeIV EXCEPT ![1] = XorWord(BlakeIV[1], <<out_len, 257, 0, 0>>)]

WordBytes(w) ==
    <<w[1] % 256, w[1] \div 256, w[2] % 256, w[2] \div 256,
      w[3] % 256, w[3] \div 256, w[4] % 256, w[4] \div 256>>

VarBlake2b(data, out_len) ==
    LET h == BlakeUpdate(BlakeInit(out_len), data, 0) IN
    SubSeq(WordBytes(h[1]) \o WordBytes(h[2]) \o WordBytes(h[3])
             \o WordBytes(h[4]) \o WordBytes(h[5]) \o WordBytes(h[6])
             \o WordBytes(h[7]) \o WordBytes(h[8]),
           1, out_len)

hash_blob_bytes(blob) == u64_be(Len(blob)) \o blob

RECURSIVE entry_hash_bytes(_), hash_tree_updates(_, _)

\* the updates of the for_each closure, for the keys ks still to visit
hash_tree_updates(tree, ks) ==
    IF ks = <<>> THEN <<>>
    ELSE encode_irmin_node_kind(tree[Head(ks)].node_kind)
           \o <<Len(into_bytes(Head(ks))) % 256>>
           \o into_bytes(Head(ks))
           \o u64_be(HASH_LEN)
           \o entry_hash_bytes(tree[Head(ks)].entry_hash)
           \o hash_tree_updates(tree, Tail(ks))

hash_tree_bytes(tree) ==
    u64_be(Cardinality(DOMAIN tree))
      \o hash_tree_updates(tree, tree_iter(DOMAIN tree))

\* the 32 bytes of an EntryHash of a tree or a blob
entry_hash_bytes(h) ==
    CASE h[1] = "E" -> VarBlake2b(u64_be(0), HASH_LEN)
      [] h[1] = "B" -> VarBlake2b(hash_blob_bytes(h[2]), HASH_LEN)
      [] h[1] = "T" -> VarBlake2b(hash_tree_bytes(h[2]), HASH_LEN)

\* the five set calls of test_tree_hash, and the staging area they build
FixtureSets ==
    <<SetAction(<<"a", "foo">>, <<97, 98, 99>>),
      SetAction(<<"b", "boo">>, <<97, 98>>),
      SetAction(<<"a", "aaa">>, <<97, 98, 99, 100>>),
      SetAction(<<"x">>, <<97>>),
      SetAction(<<"one", "two", "three">>, <<97>>)>>

FixtureStaging == apply_actions_to_staging_area(Mem, FixtureSets).m
FixtureRoot == FixtureStaging.cst[1]
FixtureEntries ==
    {FixtureStaging.staged[i][3] : i \in 1..Len(FixtureStaging.staged)}

\* trees handed to hash_tree: any nodes under any of these segments
HashSegs == {"a", "aaa", "b", "x"}
HashNodes ==
    {Leaf(hash_blob(<<>>)), Leaf(hash_blob(<<97>>)),
     get_non_leaf(hash_tree(EmptyTree))}
HashTrees ==
    UNION {[present -> HashNodes] : present \in SUBSET HashSegs}
HashArgs ==
    {TreeEntry(t) : t \in HashTrees} \cup {BlobEntry(v) : v \in Values}
      \cup {e \in FixtureEntries : e[1] # "Commit"}

InitHash ==
    /\ MerkleInit
    /\ ChainIdle
    /\ hash_arg \in HashArgs
    /\ hash_fed = None
    /\ hash_out = None

HashTree ==
    /\ hash_arg[1] = "Tree"
    /\ hash_fed = None
    /\ hash_fed' = Some(hash_tree_bytes(hash_arg[2]))
    /\ hash_out' = Some(VarBlake2b(hash_tree_bytes(hash_arg[2]), HASH_LEN))
    /\ UNCHANGED <<hash_arg, merkle_vars, chain_vars>>

HashBlob ==
    /\ hash_arg[1] = "Blob"
    /\ hash_fed = None
    /\ hash_fed' = Some(hash_blob_bytes(hash_arg[2]))
    /\ hash_out' = Some(VarBlake2b(hash_blob_bytes(hash_arg[2]), HASH_LEN))
    /\ UNCHANGED <<hash_arg, merkle_vars, chain_vars>>

NextHash == HashTree \/ HashBlob

SpecHash == InitHash /\ [][NextHash]_vars

\* the segments of a tree in ascending order
Ascending(ks) ==
    CHOOSE s \in [1..Cardinality(ks) -> ks] :
        \A i, j \in 1..Cardinality(ks) : i < j => StringLess(s[i], s[j])

KindTag(kind) ==
    [i \in 1..8 |-> IF kind = "Leaf" /\ i = 1 THEN 255 ELSE 0]

FramedNode(segment, node) ==
    KindTag(node.node_kind)
      \o <<Len(SegmentBytes[segment])>> \o SegmentBytes[segment]
      \o <<0, 0, 0, 0, 0, 0, 0, 32>>
      \o entry_hash_bytes(node.entry_hash)

RECURSIVE FramedNodes(_, _, _)
FramedNodes(tree, order, i) ==
    IF i > Len(order) THEN <<>>
    ELSE FramedNode(order[i], tree[order[i]])
           \o FramedNodes(tree, order, i + 1)

Framed(tree) ==
    <<0, 0, 0, 0, 0, 0, 0, Cardinality(DOMAIN tree)>>
      \o FramedNodes(tree, Ascending(DOMAIN tree), 1)

\* C14: the bytes hashed for a Tree of N entries are u64_be(N) and then, per
\* entry in ascending segment order, the 8-byte kind tag, one byte of segment
\* length, the segment, u64_be(32) and the 32-byte child hash; the tree built
\* by the five sets of the fixture hashes to DB AE D7 B6 ...
C14_TreeHashFraming ==
    (hash_fed # None /\ hash_arg[1] = "Tree") =>
        /\ hash_fed[1] = Framed(hash_arg[2])
        /\ Len(hash_out[1]) = 32
        /\ hash_arg[2] = FixtureRoot =>
               SubSeq(hash_out[1], 1, 4) = <<219, 174, 215, 182>>

C14_Witness ==
    /\ hash_arg = TreeEntry(FixtureRoot)
    /\ DOMAIN FixtureRoot = {"a", "b", "one", "x"}
    /\ hash_fed # None
    /\ Len(hash_fed[1]) = 210
    /\ SubSeq(hash_out[1], 1, 4) = <<219, 174, 215, 182>>

(***************************************************************************)
(* Chain manager (shell/src/chain_manager.rs).                             *)
(*                                                                         *)
(* cm is the ChainManager actor: its peers, the missing blocks and         *)
(* missing operations its chain_state and operations_state hold, the       *)
(* current head and the bootstrapped flag.  storage is the persistent      *)
(* storage behind block_storage, block_meta_storage, operations_storage    *)
(* and chain_meta_storage.  sys is the actor system: the                   *)
(* ApplyCompletedBlock commands in the manager's mailbox, the ApplyBlock   *)
(* requests published to the block applier, the BlockApplied events on     *)
(* their way back and the peer actors that were told to stop.              *)
(* BlockchainState and OperationsState (shell/src/state) follow the        *)
(* design description of the chain synchronizer.                           *)
(***************************************************************************)
MaxEvents == 4
BLOCK_HEADERS_BATCH_SIZE == 10
BLOCK_OPERATIONS_BATCH_SIZE == 10
num_of_peers_for_bootstrap_threshold == 1

ChainPeers == {"p1", "p2"}
Genesis == "G"
\* a branch longer than a request batch, for the request queues
LongBranch ==
    <<"N1", "N2", "N3", "N4", "N5", "N6", "N7", "N8", "N9", "N10", "N11">>

LongHeader ==
    [b \in {LongBranch[i] : i \in 1..Len(LongBranch)} |->
        LET i == CHOOSE j \in 1..Len(LongBranch) : LongBranch[j] = b IN
        [level |-> i,
         predecessor |-> IF i = 1 THEN "G" ELSE LongBranch[i - 1],
         fitness |-> <<i>>, validation_pass |-> 1]]

\* the headers peers can announce: two branches above genesis
BranchHeader ==
    [G |-> [level |-> 0, predecessor |-> "G", fitness |-> <<0>>,
            validation_pass |-> 0],
     A1 |-> [level |-> 1, predecessor |-> "G", fitness |-> <<1>>,
             validation_pass |-> 1],
     B1 |-> [level |-> 1, predecessor |-> "G", fitness |-> <<1>>,
             validation_pass |-> 0],
     C1 |-> [level |-> 1, predecessor |-> "G", fitness |-> <<2>>,
             validation_pass |-> 0],
     A2 |-> [level |-> 2, predecessor |-> "A1", fitness |-> <<2>>,
             validation_pass |-> 1],
     A3 |-> [level |-> 3, predecessor |-> "A2", fitness |-> <<3>>,
             validation_pass |-> 1]]

Header == BranchHeader @@ LongHeader
\* the blocks of the synchronisation runs; A3 is for the longer branch
ChainBlocks == {"G", "A1", "B1", "C1", "A2"}
ValidationPasses == {0, 1}

Head_new(b) ==
    [block_hash |-> b, level |-> Header[b].level,
     fitness |-> Header[b].fitness]

\* the metadata the peers sent at the handshake
PeerMetadata ==
    [p1 |-> [disable_mempool |-> FALSE], p2 |-> [disable_mempool |-> TRUE]]

PeerState_new(peer_metadata) ==
    [queued_block_headers |-> {}, queued_block_operations |-> NoFunction,
     missing_mempool_operations |-> <<>>,
     queued_mempool_operations |-> NoFunction,
     current_head_level |-> None, is_bootstrapped |-> FALSE,
     mempool_enabled |-> ~peer_metadata.disable_mempool]

\* the manager, the storage and the actor system as a handler finds them;
\* sys.sent holds what the handler tells the peers
World == [cm |-> cm, storage |-> storage, sys |-> [sys EXCEPT !.sent = {}]]

\* OperationsState::are_operations_complete
are_operations_complete(w, b) ==
    \A i \in 0..(Header[b].validation_pass - 1) :
        <<b, i>> \in w.storage.operations

MissingOperations_for(w, b) ==
    {i \in 0..(Header[b].validation_pass - 1) :
        <<b, i>> \notin w.storage.operations}

\* BlockchainState::can_accept_branch
can_accept_branch(w, b) ==
    \/ w.cm.current_head.local = None
    \/ /\ Header[b].level > w.cm.current_head.local[1].level
       /\ BytesLess(w.cm.current_head.local[1].fitness, Header[b].fitness)

\* BlockchainState::schedule_branch_bootstrap
schedule_branch_bootstrap(w, b, history) ==
    [w EXCEPT !.cm.missing_blocks =
        @ \cup {x \in {b} \cup history : x \notin w.storage.blocks}]

\* BlockMetaStorage::put_block_header: the block's record, and the block as
\* a successor of its predecessor
put_block_header(meta, b) ==
    [x \in DOMAIN meta \cup {b, Header[b].predecessor} |->
        IF x = b
        THEN [is_applied |-> IF b \in DOMAIN meta THEN meta[b].is_applied
                             ELSE FALSE,
              successors |-> IF b \in DOMAIN meta THEN meta[b].successors
                             ELSE <<>>,
              predecessor |-> Some(Header[b].predecessor)]
        ELSE IF x = Header[b].predecessor
        THEN IF x \in DOMAIN meta
             THEN [meta[x] EXCEPT !.successors =
                      IF \E i \in 1..Len(@) : @[i] = b THEN @
                      ELSE Append(@, b)]
             ELSE [is_applied |-> FALSE, successors |-> <<b>>,
                   predecessor |-> None]
        ELSE meta[x]]

\* BlockchainState::process_block_header
process_block_header(w, b) ==
    [w EXCEPT
        !.storage.blocks = @ \cup {b},
        !.storage.meta = put_block_header(@, b),
        !.cm.missing_blocks =
            IF b \notin w.storage.blocks
               /\ Header[b].predecessor \notin w.storage.blocks
            THEN @ \cup {Header[b].predecessor} ELSE @]

\* OperationsState::process_block_header
operations_process_block_header(w, b) ==
    IF are_operations_complete(w, b) THEN w
    ELSE [w EXCEPT !.cm.missing_operations = @ \cup {b}]

\* OperationsState::process_block_operations
process_block_operations(w, b, pass) ==
    [w EXCEPT !.storage.operations = @ \cup {<<b, pass>>}]

\* BlockchainState::can_apply_block
can_apply_block(w, meta, operations_complete) ==
    /\ meta.predecessor # None
    /\ operations_complete
    /\ meta.predecessor[1] \in DOMAIN w.storage.meta
    /\ w.storage.meta[meta.predecessor[1]].is_applied

\* ctx.myself().tell(ApplyCompletedBlock { block_hash })
tell_ApplyCompletedBlock(w, b) == [w EXCEPT !.sys.apply = Append(@, b)]

\* ctx.system.stop(peer)
system_stop(w, p) == [w EXCEPT !.sys.stopped = @ \cup {p}]

\* lines 464-472 with the operations taken to be complete
BlockHeaderApply_operations_assumed(w, b) ==
    IF can_apply_block(w, w.storage.meta[b], TRUE)
    THEN tell_ApplyCompletedBlock(w, b)
    ELSE w

\* lines 464-472, on the state the header was ingested into
BlockHeaderApply(w, b) ==
    IF can_apply_block(w, w.storage.meta[b], are_operations_complete(w, b))
    THEN tell_ApplyCompletedBlock(w, b)
    ELSE w

\* PeerMessage::BlockHeader
on_BlockHeader(w, p, b) ==
    IF b \in w.cm.peers[p].queued_block_headers
    THEN BlockHeaderApply(
             operations_process_block_header(
                 process_block_header(
                     [w EXCEPT !.cm.peers[p].queued_block_headers = @ \ {b}],
                     b),
                 b),
             b)
    ELSE w

\* lines 529-561, on the state the validation pass was stored into
OperationsApply(w, p, b) ==
    IF ~are_operations_complete(w, b) THEN w
    ELSE [(IF can_apply_block(w, w.storage.meta[b], TRUE)
           THEN tell_ApplyCompletedBlock(w, b) ELSE w)
          EXCEPT !.cm.peers[p].queued_block_operations =
              [x \in DOMAIN @ \ {b} |-> @[x]]]

\* PeerMessage::OperationsForBlocks that takes any pass of a queued block
on_OperationsForBlocks_any_pass(w, p, b, pass) ==
    IF b \notin DOMAIN w.cm.peers[p].queued_block_operations
    THEN system_stop(w, p)
    ELSE OperationsApply(
             process_block_operations(
                 [w EXCEPT !.cm.peers[p].queued_block_operations[b] =
                               @ \ {pass}],
                 b, pass),
             p, b)

\* PeerMessage::OperationsForBlocks
on_OperationsForBlocks(w, p, b, pass) ==
    IF b \notin DOMAIN w.cm.peers[p].queued_block_operations
    THEN system_stop(w, p)
    ELSE IF pass \notin w.cm.peers[p].queued_block_operations[b]
    THEN system_stop(w, p)
    ELSE OperationsApply(
             process_block_operations(
                 [w EXCEPT !.cm.peers[p].queued_block_operations[b] =
                               @ \ {pass}],
                 b, pass),
             p, b)

\* need_update_remote_level that takes any announced level
need_update_remote_level_always(w, new_remote_level) == TRUE

\* CurrentHead::need_update_remote_level
need_update_remote_level(w, new_remote_level) ==
    \/ w.cm.current_head.remote = None
    \/ new_remote_level > w.cm.current_head.remote[1].level

\* lines 397-410
CurrentBranchAccepted(w, p, b) ==
    [w EXCEPT
        !.cm.current_head.remote =
            IF need_update_remote_level(w, Header[b].level)
            THEN Some(Head_new(b)) ELSE @,
        !.cm.peers[p].current_head_level =
            IF @ = None \/ Header[b].level > @[1]
            THEN Some(Header[b].level) ELSE @]

\* PeerMessage::CurrentBranch
on_CurrentBranch(w, p, b, history) ==
    IF ~can_accept_branch(w, b) THEN w
    ELSE CurrentBranchAccepted(schedule_branch_bootstrap(w, b, history), p, b)

\* PeerState::available_block_queue_capacity
available_block_queue_capacity(peer) ==
    IF Cardinality(peer.queued_block_headers) < BLOCK_HEADERS_BATCH_SIZE
    THEN BLOCK_HEADERS_BATCH_SIZE - Cardinality(peer.queued_block_headers)
    ELSE 0

\* PeerState::available_block_operations_queue_capacity
available_block_operations_queue_capacity(peer) ==
    IF Cardinality(DOMAIN peer.queued_block_operations)
           < BLOCK_OPERATIONS_BATCH_SIZE
    THEN BLOCK_OPERATIONS_BATCH_SIZE
             - Cardinality(DOMAIN peer.queued_block_operations)
    ELSE 0

\* at most n of the blocks a peer at this level can have
drain(missing, n, level) ==
    LET fits == {b \in missing : Header[b].level <= level} IN
    IF Cardinality(fits) <= n THEN fits
    ELSE CHOOSE s \in SUBSET fits : Cardinality(s) = n

\* lines 266-294: the peers take missing blocks in this order
RECURSIVE RequestBlocks(_, _)
RequestBlocks(w, order) ==
    IF order = <<>> THEN w
    ELSE LET p == order[1]
             peer == w.cm.peers[p]
             taken == IF peer.current_head_level = None THEN {}
                      ELSE drain(w.cm.missing_blocks,
                                 available_block_queue_capacity(peer),
                                 peer.current_head_level[1])
         IN RequestBlocks(
                [w EXCEPT !.cm.missing_blocks = @ \ taken,
                          !.cm.peers[p].queued_block_headers = @ \cup taken],
                Tail(order))

\* lines 297-325
RECURSIVE RequestOperations(_, _)
RequestOperations(w, order) ==
    IF order = <<>> THEN w
    ELSE LET p == order[1]
             peer == w.cm.peers[p]
             taken == IF peer.current_head_level = None THEN {}
                      ELSE drain(w.cm.missing_operations,
                                 available_block_operations_queue_capacity(peer),
                                 peer.current_head_level[1])
         IN RequestOperations(
                [w EXCEPT
                    !.cm.missing_operations = @ \ taken,
                    !.cm.peers[p].queued_block_operations =
                        [x \in DOMAIN @ \cup taken |->
                            IF x \in taken THEN MissingOperations_for(w, x)
                            ELSE @[x]]],
                Tail(order))

\* ChainManager::hydrate_state
hydrate_state(w) ==
    [w EXCEPT
        !.cm.current_head.local = w.storage.current_head,
        !.cm.missing_blocks = DOMAIN w.storage.meta \ w.storage.blocks,
        !.cm.missing_operations =
            {b \in w.storage.blocks : ~are_operations_complete(w, b)}]

\* lines 956-957 for a successor that has no validation pass to wait for
SuccessorCanApply_without_operations(w, successor) ==
    /\ successor \in DOMAIN w.storage.meta
    /\ can_apply_block(w, w.storage.meta[successor],
                       Header[successor].validation_pass = 0)

\* lines 956-957
SuccessorCanApply(w, successor) ==
    /\ successor \in DOMAIN w.storage.meta
    /\ can_apply_block(w, w.storage.meta[successor],
                       are_operations_complete(w, successor))

\* check_successors_for_apply that schedules no successor
check_successors_for_apply_none(w, block) == w

\* ChainManager::check_successors_for_apply
check_successors_for_apply(w, block) ==
    IF block \notin DOMAIN w.storage.meta THEN w
    ELSE [w EXCEPT !.sys.apply =
             @ \o SelectSeq(w.storage.meta[block].successors,
                            LAMBDA s : SuccessorCanApply(w, s))]

\* lines 333-336
CheckLocalSuccessors(w) ==
    IF w.cm.current_head.local = None THEN w
    ELSE check_successors_for_apply(w, w.cm.current_head.local[1].block_hash)

\* a peer goes behind the peers sorted so far whose key is not larger
RECURSIVE InsertByKey(_, _, _)
InsertByKey(sorted, p, key) ==
    IF sorted = <<>> THEN <<p>>
    ELSE IF key[sorted[Len(sorted)]] <= key[p] THEN Append(sorted, p)
    ELSE Append(InsertByKey(SubSeq(sorted, 1, Len(sorted) - 1), p, key),
                sorted[Len(sorted)])

RECURSIVE sorted_by_key(_, _)
sorted_by_key(order, key) ==
    IF order = <<>> THEN <<>>
    ELSE InsertByKey(sorted_by_key(SubSeq(order, 1, Len(order) - 1), key),
                     order[Len(order)], key)

\* Iterator::rev
rev(s) == [i \in 1..Len(s) |-> s[Len(s) + 1 - i]]

\* lines 266-294: order is the order in which the peers map yields them
RequestBlocksSorted(w, order) ==
    RequestBlocks(w,
        rev(sorted_by_key(order,
                [p \in DOMAIN w.cm.peers |->
                    available_block_queue_capacity(w.cm.peers[p])])))

\* lines 297-325
RequestOperationsSorted(w, order) ==
    RequestOperations(w,
        rev(sorted_by_key(order,
                [p \in DOMAIN w.cm.peers |->
                    available_block_operations_queue_capacity(
                        w.cm.peers[p])])))

\* lines 327-331
HydrateIfStalled(w, stalled) ==
    IF stalled /\ w.cm.applied_block_last THEN hydrate_state(w) ELSE w

\* ChainManager::check_chain_completeness
check_chain_completeness(w, order, stalled) ==
    CheckLocalSuccessors(
        HydrateIfStalled(
            RequestOperationsSorted(RequestBlocksSorted(w, order), order),
            stalled))

\* lines 926-930
PeerIsBootstrapped(w, peer) ==
    LET chain_manager_current_level ==
            IF w.cm.current_head.local = None THEN 0
            ELSE w.cm.current_head.local[1].level
        peer_level == IF peer.current_head_level = None THEN 0
                      ELSE peer.current_head_level[1]
    IN peer_level > 0 /\ peer_level <= chain_manager_current_level

\* lines 922-937
MarkBootstrappedPeers(w) ==
    [w EXCEPT !.cm.peers =
        [p \in DOMAIN @ |->
            IF ~@[p].is_bootstrapped /\ PeerIsBootstrapped(w, @[p])
            THEN [@[p] EXCEPT !.is_bootstrapped = TRUE]
            ELSE @[p]]]

\* lines 939-943
num_of_bootstrapped_peers(w) ==
    Cardinality({p \in DOMAIN w.cm.peers : w.cm.peers[p].is_bootstrapped})

\* lines 945-948, on the state with the peers marked
ResolveThreshold(marked) ==
    IF marked.cm.num_of_peers_threshold <= num_of_bootstrapped_peers(marked)
    THEN [marked EXCEPT !.cm.is_bootstrapped = TRUE]
    ELSE marked

\* ChainManager::resolve_is_bootstrapped
resolve_is_bootstrapped(w) ==
    IF w.cm.is_bootstrapped THEN w
    ELSE ResolveThreshold(MarkBootstrappedPeers(w))

\* ChainManager::update_local_current_head
update_local_current_head(w, new_head) ==
    resolve_is_bootstrapped(
        [w EXCEPT !.cm.current_head.local = Some(new_head),
                  !.cm.applied_block_last = TRUE])

\* can_update_current_head where a tie goes to the applied block
can_update_current_head_tie_wins(w, b) ==
    \/ w.cm.current_head.local = None
    \/ Header[b].level > w.cm.current_head.local[1].level
    \/ /\ Header[b].level = w.cm.current_head.local[1].level
       /\ ~BytesLess(Header[b].fitness, w.cm.current_head.local[1].fitness)

\* the test of BlockchainState::try_set_new_current_head
can_update_current_head(w, b) ==
    \/ w.cm.current_head.local = None
    \/ Header[b].level > w.cm.current_head.local[1].level
    \/ /\ Header[b].level = w.cm.current_head.local[1].level
       /\ BytesLess(w.cm.current_head.local[1].fitness, Header[b].fitness)

\* BlockchainState::try_set_new_current_head, for a block that wins
try_set_new_current_head(w, b) ==
    [w EXCEPT !.storage.current_head = Some(Head_new(b))]

\* the HeadResult of BlockchainState::try_set_new_current_head: a head on
\* top of the current head is an increment, any other a switch of branch
HeadResult(w, b) ==
    IF w.cm.current_head.local = None
         \/ Header[b].predecessor = w.cm.current_head.local[1].block_hash
    THEN "HeadIncrement" ELSE "BranchSwitch"

Mempool_default == [known_valid |-> <<>>, pending |-> <<>>]

\* tell_peer(CurrentHeadMessage::new(chain_id, header, mempool), peer)
CurrentHeadMessage(p, b, mempool) ==
    [to |-> p, header |-> b, current_mempool |-> mempool]

\* a broadcast that does not look at the head result
BroadcastNewHead_any_result(w, b, head_result) ==
    IF w.cm.is_bootstrapped
    THEN [w EXCEPT !.sys.sent =
             @ \cup {CurrentHeadMessage(p, b, Mempool_default) :
                        p \in DOMAIN w.cm.peers}]
    ELSE w

\* lines 723-747, on the state with the new head: head_result is the
\* HeadResult that came with it
BroadcastNewHead(w, b, head_result) ==
    IF w.cm.is_bootstrapped /\ head_result = "HeadIncrement"
    THEN [w EXCEPT !.sys.sent =
             @ \cup {CurrentHeadMessage(p, b, Mempool_default) :
                        p \in DOMAIN w.cm.peers}]
    ELSE w

\* lines 706-748
NewCurrentHead(w, b) ==
    BroadcastNewHead(
        update_local_current_head(try_set_new_current_head(w, b),
                                  Head_new(b)),
        b, HeadResult(w, b))

\* ShellChannelMsg::BlockApplied
on_BlockApplied(w, b) ==
    check_successors_for_apply(
        IF can_update_current_head(w, b) THEN NewCurrentHead(w, b) ELSE w,
        b)

\* ChainManager::apply_completed_block
apply_completed_block(w, b) ==
    IF b \notin DOMAIN w.storage.meta THEN w
    ELSE IF w.storage.meta[b].is_applied THEN w
    ELSE IF b \notin w.storage.blocks
            \/ Header[b].predecessor \notin w.storage.blocks
    THEN w
    ELSE [w EXCEPT !.sys.apply_block = Append(@, b)]

\* lines 824-853: the validation passes that come with the injected block
RECURSIVE InjectOperations(_, _, _)
InjectOperations(w, b, passes) ==
    IF passes = 0 THEN w
    ELSE process_block_operations(InjectOperations(w, b, passes - 1),
                                  b, passes - 1)

\* lines 855-867
InjectApply(w, b, operations_complete) ==
    IF can_apply_block(w, w.storage.meta[b], operations_complete)
    THEN tell_ApplyCompletedBlock(w, b)
    ELSE w

\* lines 809-870, on the state the header was ingested into
InjectNew(w, b, passes) ==
    IF are_operations_complete(w, b) THEN InjectApply(w, b, TRUE)
    ELSE InjectApply(InjectOperations(w, b, passes), b,
                     passes > 0
                       /\ are_operations_complete(
                              InjectOperations(w, b, passes), b))

\* ShellChannelMsg::InjectBlock
on_InjectBlock(w, b, passes) ==
    IF b \in w.storage.blocks THEN process_block_header(w, b)
    ELSE InjectNew(process_block_header(w, b), b, passes)

\* ActorTerminated that counts the bootstrapped peers that are left
on_ActorTerminated_recounted(w, p) ==
    [w EXCEPT
        !.cm.peers = [x \in DOMAIN @ \ {p} |-> @[x]],
        !.cm.missing_blocks = @ \cup w.cm.peers[p].queued_block_headers,
        !.cm.missing_operations =
            @ \cup DOMAIN w.cm.peers[p].queued_block_operations,
        !.sys.stopped = @ \ {p},
        !.cm.is_bootstrapped =
            w.cm.num_of_peers_threshold
                <= Cardinality({x \in DOMAIN w.cm.peers \ {p} :
                                   w.cm.peers[x].is_bootstrapped})]

\* Receive<SystemEvent>: ActorTerminated
on_ActorTerminated(w, p) ==
    [w EXCEPT
        !.cm.peers = [x \in DOMAIN @ \ {p} |-> @[x]],
        !.cm.missing_blocks = @ \cup w.cm.peers[p].queued_block_headers,
        !.cm.missing_operations =
            @ \cup DOMAIN w.cm.peers[p].queued_block_operations,
        !.sys.stopped = @ \ {p}]

\* NetworkChannelMsg::PeerBootstrapped
on_PeerBootstrapped(w, p) ==
    [w EXCEPT !.cm.peers =
        [x \in DOMAIN @ \cup {p} |->
            IF x = p THEN PeerState_new(PeerMetadata[p]) ELSE @[x]]]

\* the block applier: applies a requested block and announces BlockApplied
block_applied(w, b) ==
    [w EXCEPT !.storage.meta[b].is_applied = TRUE,
              !.sys.applied = @ \cup {b}]

RECURSIVE Ancestors(_)
Ancestors(b) ==
    IF Header[b].predecessor = b THEN {}
    ELSE {Header[b].predecessor} \cup Ancestors(Header[b].predecessor)

\* the orders in which check_chain_completeness can visit the peers
PeerOrders(w) ==
    {order \in [1..Cardinality(DOMAIN w.cm.peers) -> DOMAIN w.cm.peers] :
        \A i, j \in DOMAIN order : i # j => order[i] # order[j]}

\* what the storage can hold when the manager starts: nothing but
\* genesis, genesis as the stored head, or also a header whose operations
\* did not arrive before the node went down
ChainStorages ==
    LET genesis(head) ==
            [blocks |-> {Genesis},
             meta |-> [b \in {Genesis} |->
                          [is_applied |-> TRUE, successors |-> <<>>,
                           predecessor |-> Some(Genesis)]],
             operations |-> {},
             mempool |-> {},
             current_head |-> head]
    IN {genesis(None), genesis(Some(Head_new(Genesis))),
        [genesis(Some(Head_new(Genesis))) EXCEPT
            !.blocks = @ \cup {"A1"},
            !.meta = put_block_header(@, "A1")]}

\* ChainManager::create_args
create_args(threshold) ==
    [peers |-> NoFunction, missing_blocks |-> {}, missing_operations |-> {},
     current_head |-> [local |-> None, remote |-> None],
     is_bootstrapped |-> FALSE, applied_block_last |-> FALSE,
     num_of_peers_threshold |-> threshold, shutting_down |-> FALSE,
     current_mempool_state |-> None]

\* the actor system at start: an empty storage has genesis applied now
SystemAtStart(stored) ==
    [apply |-> <<>>, apply_block |-> <<>>,
     applied |-> IF stored.current_head = None THEN {Genesis} ELSE {},
     stopped |-> {}, sent |-> {}, check_mempool |-> 0, published |-> {}]

\* Actor::pre_start
pre_start(stored, threshold) ==
    hydrate_state([cm |-> create_args(threshold), storage |-> stored,
                   sys |-> SystemAtStart(stored)])

InitChain ==
    /\ MerkleInit
    /\ HasherIdle
    /\ \E stored \in ChainStorages :
          /\ storage = stored
          /\ cm = pre_start(stored,
                            num_of_peers_for_bootstrap_threshold).cm
          /\ sys = pre_start(stored,
                             num_of_peers_for_bootstrap_threshold).sys
    /\ handled = 0

\* a message from outside handled: w is the state the handler leaves
Handled(w) ==
    /\ handled < MaxEvents
    /\ cm' = w.cm
    /\ storage' = w.storage
    /\ sys' = w.sys
    /\ handled' = handled + 1
    /\ UNCHANGED <<merkle_vars, hash_vars>>

\* a step of the apply pipeline: a command, request or event that an
\* earlier message caused
Delivered(w) ==
    /\ cm' = w.cm
    /\ storage' = w.storage
    /\ sys' = w.sys
    /\ UNCHANGED handled
    /\ UNCHANGED <<merkle_vars, hash_vars>>

ReceivePeerBootstrapped(p) ==
    /\ p \notin DOMAIN cm.peers
    /\ Handled(on_PeerBootstrapped(World, p))

ReceiveCurrentBranch(p, b, history) ==
    /\ p \in DOMAIN cm.peers
    /\ Handled(on_CurrentBranch(World, p, b, history))

ReceiveBlockHeader(p, b) ==
    /\ p \in DOMAIN cm.peers
    /\ Handled(on_BlockHeader(World, p, b))

ReceiveOperationsForBlocks(p, b, pass) ==
    /\ p \in DOMAIN cm.peers
    /\ Handled(on_OperationsForBlocks(World, p, b, pass))

\* Receive<CheckChainCompleteness>
ReceiveCheckChainCompleteness(order, stalled) ==
    Handled(IF cm.shutting_down THEN World
            ELSE check_chain_completeness(World, order, stalled))

\* Receive<ApplyCompletedBlock>
ReceiveApplyCompletedBlock ==
    /\ sys.apply # <<>>
    /\ Delivered(IF cm.shutting_down
                 THEN [World EXCEPT !.sys.apply = Tail(@)]
                 ELSE apply_completed_block(
                          [World EXCEPT !.sys.apply = Tail(@)],
                          sys.apply[1]))

BlockApplier(b) ==
    /\ \E i \in 1..Len(sys.apply_block) : sys.apply_block[i] = b
    /\ ~storage.meta[b].is_applied
    /\ storage.meta[Header[b].predecessor].is_applied
    /\ Delivered(block_applied(World, b))

ReceiveBlockApplied(b) ==
    /\ b \in sys.applied
    /\ Delivered(on_BlockApplied([World EXCEPT !.sys.applied = @ \ {b}], b))

ReceiveInjectBlock(b, passes) ==
    Handled(on_InjectBlock(World, b, passes))

ReceiveActorTerminated(p) ==
    /\ p \in DOMAIN cm.peers
    /\ Handled(on_ActorTerminated(World, p))

NextChain ==
    \/ \E p \in ChainPeers : ReceivePeerBootstrapped(p)
    \/ \E p \in ChainPeers, b \in ChainBlocks \ {Genesis} :
          \E history \in {{}, Ancestors(b)} :
             ReceiveCurrentBranch(p, b, history)
    \/ \E p \in ChainPeers, b \in ChainBlocks \ {Genesis} :
          ReceiveBlockHeader(p, b)
    \/ \E p \in ChainPeers, b \in ChainBlocks \ {Genesis} :
          \E pass \in ValidationPasses :
             ReceiveOperationsForBlocks(p, b, pass)
    \/ \E order \in PeerOrders(World), stalled \in BOOLEAN :
          ReceiveCheckChainCompleteness(order, stalled)
    \/ ReceiveApplyCompletedBlock
    \/ \E b \in ChainBlocks \ {Genesis} : BlockApplier(b)
    \/ \E b \in ChainBlocks : ReceiveBlockApplied(b)
    \/ \E b \in ChainBlocks \ {Genesis} :
          \E passes \in 0..Header[b].validation_pass :
             ReceiveInjectBlock(b, passes)
    \/ \E p \in ChainPeers : ReceiveActorTerminated(p)

SpecChain == InitChain /\ [][NextChain]_vars

\* a block whose predecessor is applied, whose metadata is stored and
\* whose every validation pass is stored
Applicable(b) ==
    /\ b \in DOMAIN storage.meta
    /\ storage.meta[b].predecessor = Some(Header[b].predecessor)
    /\ Header[b].predecessor \in DOMAIN storage.meta
    /\ storage.meta[Header[b].predecessor].is_applied
    /\ \A pass \in 0..(Header[b].validation_pass - 1) :
          <<b, pass>> \in storage.operations

\* C15: every ApplyCompletedBlock command in the manager's mailbox, whichever
\* handler sent it (BlockHeader, OperationsForBlocks, InjectBlock or the
\* successor scan), names a block whose predecessor is applied, whose
\* metadata is stored and whose every validation pass is stored; stored
\* data and applied marks are never taken back, so this holds from the
\* moment of sending on.
C15_ApplyOnlyApplicable ==
    \A i \in 1..Len(sys.apply) : Applicable(sys.apply[i])

\* a peer is connected, two commands wait in the mailbox, and one of them
\* names a block that has a validation pass: the pass is stored and no
\* peer is still asked for it
C15_Witness ==
    /\ cm.peers # NoFunction
    /\ Len(sys.apply) >= 2
    /\ \E i \in 1..Len(sys.apply) :
          /\ Header[sys.apply[i]].validation_pass > 0
          /\ Applicable(sys.apply[i])
          /\ \A p \in DOMAIN cm.peers :
                sys.apply[i] \notin DOMAIN cm.peers[p].queued_block_operations

\* C16: once the manager's is_bootstrapped flag is true it is true after
\* every further step: a peer disconnecting, a new peer, a rehydration, a
\* further head.
C16_BootstrappedStays ==
    [][cm.is_bootstrapped => cm'.is_bootstrapped]_vars

\* the manager is bootstrapped although the peer that made it so is gone
C16_Witness ==
    /\ cm.is_bootstrapped
    /\ cm.peers = NoFunction
    /\ cm.current_head.local # None
    /\ cm.current_head.local[1].level > 0

\* the level of an optional head, 0 when there is none
LevelOf(head) == IF head = None THEN 0 ELSE head[1].level

\* C17: over any sequence of CurrentBranch messages from any peers the
\* remote head level never decreases, and the remote head is replaced only
\* by a head whose level is strictly higher than the one it replaces (or
\* when there was no remote head yet).
C17_RemoteLevelMonotone ==
    [][/\ LevelOf(cm'.current_head.remote) >= LevelOf(cm.current_head.remote)
       /\ cm.current_head.remote # None => cm'.current_head.remote # None
       /\ (cm.current_head.remote # None
             /\ cm'.current_head.remote # cm.current_head.remote)
            => cm'.current_head.remote[1].level
                  > cm.current_head.remote[1].level]_vars

\* announcements at level 1 and at level 2 were both accepted: one of the
\* peers is at level 1 and the remote head is at level 2
C17_Witness ==
    /\ cm.current_head.remote # None
    /\ cm.current_head.remote[1].level = 2
    /\ \E p \in DOMAIN cm.peers :
          cm.peers[p].current_head_level = Some(1)

\* what handling an unrequested BlockHeader must leave, in a state w
UnexpectedHeaderRefused(w, p) ==
    /\ p \in w.sys.stopped
    /\ w.storage = storage
    /\ w.cm.peers = cm.peers
    /\ w.cm.missing_blocks = cm.missing_blocks
    /\ w.cm.missing_operations = cm.missing_operations

\* C18: when a peer sends a BlockHeader whose hash is not in that peer's
\* queued_block_headers, the peer is stopped, the header is not ingested,
\* and every request queue and the missing-block set are unchanged.
C18_UnexpectedHeaderStopsPeer ==
    \A p \in DOMAIN cm.peers, b \in ChainBlocks :
        b \notin cm.peers[p].queued_block_headers
            => UnexpectedHeaderRefused(on_BlockHeader(World, p, b), p)

\* the message is one the peer was asked for: its block is in the peer's
\* queued_block_operations and its pass is still listed as missing there
OperationsExpected(p, b, pass) ==
    /\ b \in DOMAIN cm.peers[p].queued_block_operations
    /\ pass \in cm.peers[p].queued_block_operations[b]

\* C19: an OperationsForBlocks message changes the stored operations only
\* if its block is in the sending peer's queued_block_operations and its
\* validation pass is still listed as missing there; any other
\* OperationsForBlocks message stores nothing and gets its sender stopped.
C19_OperationsOnlyIfQueued ==
    \A p \in DOMAIN cm.peers, b \in ChainBlocks, pass \in ValidationPasses :
        ~OperationsExpected(p, b, pass)
            => /\ on_OperationsForBlocks(World, p, b, pass).storage = storage
               /\ p \in on_OperationsForBlocks(World, p, b, pass).sys.stopped

\* a peer that has block A1 queued with pass 0 missing was stopped and
\* nothing of A1 is stored; the pass it is asked for would be stored, and
\* the pass it is not asked for is refused
C19_Witness ==
    \E p \in DOMAIN cm.peers :
        /\ p \in sys.stopped
        /\ OperationsExpected(p, "A1", 0)
        /\ <<"A1", 0>> \notin storage.operations
        /\ <<"A1", 0>>
              \in on_OperationsForBlocks(World, p, "A1", 0).storage.operations
        /\ ~OperationsExpected(p, "A1", 1)
        /\ on_OperationsForBlocks(World, p, "A1", 1).storage = storage

IsApplied(b) == b \in DOMAIN storage.meta /\ storage.meta[b].is_applied

\* block b wins against the head: there is no head yet, or b is at a
\* strictly higher level, or at the same level with a strictly greater
\* fitness
WinsAgainst(b, head) ==
    \/ head = None
    \/ Header[b].level > head[1].level
    \/ /\ Header[b].level = head[1].level
       /\ BytesLess(head[1].fitness, Header[b].fitness)

\* C20: the local head changes only in the step that handles a BlockApplied
\* event, and only when the applied block wins against the head the manager
\* has (on a tie the incumbent stays); the new head is that block.  No
\* other handler and no periodic task (check_chain_completeness with its
\* rehydration) replaces the local head.
C20_LocalHeadOnlyByBlockApplied ==
    [][cm'.current_head.local # cm.current_head.local
         => \E b \in sys.applied :
               /\ sys'.applied = sys.applied \ {b}
               /\ WinsAgainst(b, cm.current_head.local)
               /\ cm'.current_head.local = Some(Head_new(b))]_vars

\* the head is a block of level 1 that replaced genesis; a second block of
\* the same level and fitness was applied and its BlockApplied event was
\* handled without a change of head; a stalled check_chain_completeness
\* rehydrates now and finds the same head in the storage
C20_Witness ==
    /\ cm.current_head.local # None
    /\ cm.current_head.local[1].level = 1
    /\ cm.current_head.local[1].fitness = <<1>>
    /\ cm.applied_block_last
    /\ IsApplied("A1")
    /\ IsApplied("B1")
    /\ sys.applied = {}
    /\ HydrateIfStalled(World, TRUE).cm.current_head.local
          = cm.current_head.local

-----------------------------------------------------------------------------
\* A node that asks for two bootstrapped peers, followed over a branch of
\* three levels

MaxBootEvents == 7
BootThreshold == 2
BootBlocks == {"A1", "A2", "A3"}

InitBootstrap ==
    /\ MerkleInit
    /\ HasherIdle
    /\ \E stored \in {s \in ChainStorages :
                        s.current_head # None /\ s.blocks = {Genesis}} :
          /\ storage = stored
          /\ cm = pre_start(stored, BootThreshold).cm
          /\ sys = pre_start(stored, BootThreshold).sys
    /\ handled = 0

\* a message from outside handled in the longer run
BootHandled(w) ==
    /\ handled < MaxBootEvents
    /\ cm' = w.cm
    /\ storage' = w.storage
    /\ sys' = w.sys
    /\ handled' = handled + 1
    /\ UNCHANGED <<merkle_vars, hash_vars>>

BootPeerBootstrapped(p) ==
    /\ p \notin DOMAIN cm.peers
    /\ BootHandled(on_PeerBootstrapped(World, p))

BootCurrentBranch(p, b) ==
    /\ p \in DOMAIN cm.peers
    /\ BootHandled(on_CurrentBranch(World, p, b, {}))

BootInjectBlock(b) ==
    BootHandled(on_InjectBlock(World, b, Header[b].validation_pass))

NextBootstrap ==
    \/ \E p \in ChainPeers : BootPeerBootstrapped(p)
    \/ \E p \in ChainPeers, b \in BootBlocks : BootCurrentBranch(p, b)
    \/ \E b \in BootBlocks : BootInjectBlock(b)
    \/ ReceiveApplyCompletedBlock
    \/ \E b \in BootBlocks : BlockApplier(b)
    \/ \E b \in BootBlocks : ReceiveBlockApplied(b)

SpecBootstrap == InitBootstrap /\ [][NextBootstrap]_vars

\* the peers of w that are flagged and whose level is known, above 0 and
\* at most the local level
PeersWithinLocalLevel(w) ==
    {p \in DOMAIN w.cm.peers :
        w.cm.peers[p].is_bootstrapped /\ PeerIsBootstrapped(w, w.cm.peers[p])}

\* C21: a peer's flag is raised only while its level is known, above 0 and at
\* most the local level; the node's flag is raised only when the connected
\* flagged peers reach the threshold, and no peer at level 0, of unknown
\* level or above the local level is among the peers counted
C21_BootstrapCounts ==
    [][/\ \A p \in DOMAIN cm'.peers :
             (/\ cm'.peers[p].is_bootstrapped
              /\ (p \in DOMAIN cm.peers => ~cm.peers[p].is_bootstrapped))
                => PeerIsBootstrapped(World', cm'.peers[p])
       /\ (~cm.is_bootstrapped /\ cm'.is_bootstrapped)
             => /\ num_of_bootstrapped_peers(World')
                       >= cm.num_of_peers_threshold
                /\ Cardinality(PeersWithinLocalLevel(World'))
                       >= cm.num_of_peers_threshold]_vars

\* who gets the flag, and how many flags raise the flag of the node
FlagsAndThresholdHold ==
    [][/\ \A p \in DOMAIN cm'.peers :
             (/\ cm'.peers[p].is_bootstrapped
              /\ (p \in DOMAIN cm.peers => ~cm.peers[p].is_bootstrapped))
                => PeerIsBootstrapped(World', cm'.peers[p])
       /\ (~cm.is_bootstrapped /\ cm'.is_bootstrapped)
             => num_of_bootstrapped_peers(World')
                    >= cm.num_of_peers_threshold]_vars

-----------------------------------------------------------------------------
\* The broadcast of a new head

\* the step that handles BlockApplied(b) makes b the local head
BecomesLocalHead(b) ==
    /\ b \in sys.applied
    /\ sys'.applied = sys.applied \ {b}
    /\ cm'.current_head.local = Some(Head_new(b))
    /\ cm.current_head.local # Some(Head_new(b))

\* b is on top of the local head
IsHeadIncrement(b) ==
    \/ cm.current_head.local = None
    \/ cm.current_head.local[1].block_hash = Header[b].predecessor

\* C22: handling BlockApplied sends CurrentHead only when the node is
\* bootstrapped and the new head is a head increment, and then one to every
\* connected peer; a branch switch, a node that is not bootstrapped and a
\* block that does not become the head send nothing
C22_BroadcastOnlyOnIncrement ==
    [][\A b \in ChainBlocks :
          (b \in sys.applied /\ sys'.applied = sys.applied \ {b})
             => IF /\ BecomesLocalHead(b)
                   /\ cm'.is_bootstrapped
                   /\ IsHeadIncrement(b)
                THEN /\ {s.to : s \in sys'.sent} = DOMAIN cm'.peers
                     /\ \A s \in sys'.sent : s.header = b
                ELSE sys'.sent = {}]_vars

\* both peers were told the new head
C22_Witness ==
    /\ cm.is_bootstrapped
    /\ cm.current_head.local # None
    /\ {s.to : s \in sys.sent} = ChainPeers
    /\ \A s \in sys.sent : s.header = cm.current_head.local[1].block_hash

-----------------------------------------------------------------------------
\* The mempool in CurrentHead messages

\* the elements of a HashSet collected into a Vec
RECURSIVE collect(_)
collect(S) ==
    IF S = {} THEN <<>>
    ELSE LET x == CHOOSE y \in S : TRUE IN <<x>> \o collect(S \ {x})

\* the CurrentMempoolState values the prevalidator publishes: the head it
\* validated on, the results of the applied operations, the pending hashes
MempoolStates ==
    {[head |-> h, result |-> [applied |-> a], pending |-> q] :
        h \in {None, Some(Genesis), Some("B1")},
        a \in {<<>>, <<[hash |-> "o1"]>>},
        q \in {{}, {"o2"}}}

Mempool_is_empty(mempool) ==
    mempool.known_valid = <<>> /\ mempool.pending = <<>>

\* resolve_mempool_to_send
resolve_mempool_to_send(mempool_state) ==
    [known_valid |-> [i \in 1..Len(mempool_state.result.applied) |->
                         mempool_state.result.applied[i].hash],
     pending |-> collect(mempool_state.pending)]

\* resolve_mempool_to_send_to_peer that does not look at the peer
resolve_mempool_to_send_to_any_peer(peer, mempool_state, current_head) ==
    IF mempool_state = None THEN Mempool_default
    ELSE IF mempool_state[1].head = None THEN Mempool_default
    ELSE IF mempool_state[1].head[1] = current_head.block_hash
    THEN resolve_mempool_to_send(mempool_state[1])
    ELSE Mempool_default

\* resolve_mempool_to_send_to_peer
resolve_mempool_to_send_to_peer(peer, mempool_state, current_head) ==
    IF ~peer.mempool_enabled THEN Mempool_default
    ELSE IF mempool_state = None THEN Mempool_default
    ELSE IF mempool_state[1].head = None THEN Mempool_default
    ELSE IF mempool_state[1].head[1] = current_head.block_hash
    THEN resolve_mempool_to_send(mempool_state[1])
    ELSE Mempool_default

\* PeerMessage::GetCurrentHead, from a peer of the same chain
on_GetCurrentHead(w, p) ==
    IF w.cm.current_head.local = None THEN w
    ELSE IF w.cm.current_head.local[1].block_hash \notin w.storage.blocks
    THEN w
    ELSE [w EXCEPT !.sys.sent =
             @ \cup {CurrentHeadMessage(
                        p, w.cm.current_head.local[1].block_hash,
                        resolve_mempool_to_send_to_peer(
                            w.cm.peers[p], w.cm.current_mempool_state,
                            w.cm.current_head.local[1]))}]

\* lines 758-772: the mempool and the header to send, None without a header
MempoolToSend(w, mempool_state) ==
    IF mempool_state.head = None THEN <<Mempool_default, None>>
    ELSE IF mempool_state.head[1] \in w.storage.blocks
    THEN <<resolve_mempool_to_send(mempool_state), mempool_state.head>>
    ELSE <<Mempool_default, None>>

\* lines 774-791
SendMempool(w, mempool_to_send, header_to_send) ==
    IF header_to_send # None /\ ~Mempool_is_empty(mempool_to_send)
    THEN [w EXCEPT !.sys.sent =
             @ \cup {CurrentHeadMessage(p, header_to_send[1],
                                        mempool_to_send) :
                        p \in {x \in DOMAIN w.cm.peers :
                                  w.cm.peers[x].mempool_enabled}}]
    ELSE w

\* ShellChannelMsg::MempoolStateChanged
on_MempoolStateChanged(w, new_mempool_state) ==
    SendMempool(
        [w EXCEPT !.cm.current_mempool_state = Some(new_mempool_state)],
        MempoolToSend(w, new_mempool_state)[1],
        MempoolToSend(w, new_mempool_state)[2])

ReceiveGetCurrentHead(p) ==
    /\ p \in DOMAIN cm.peers
    /\ Handled(on_GetCurrentHead(World, p))

ReceiveMempoolStateChanged(new_mempool_state) ==
    Handled(on_MempoolStateChanged(World, new_mempool_state))

\* the messages that move the head or carry it, with the mempool
NextHead ==
    \/ \E p \in ChainPeers : ReceivePeerBootstrapped(p)
    \/ \E p \in ChainPeers, b \in ChainBlocks \ {Genesis} :
          ReceiveCurrentBranch(p, b, {})
    \/ \E b \in ChainBlocks \ {Genesis} :
          ReceiveInjectBlock(b, Header[b].validation_pass)
    \/ ReceiveApplyCompletedBlock
    \/ \E b \in ChainBlocks \ {Genesis} : BlockApplier(b)
    \/ \E b \in ChainBlocks : ReceiveBlockApplied(b)
    \/ \E p \in ChainPeers : ReceiveActorTerminated(p)
    \/ \E p \in ChainPeers : ReceiveGetCurrentHead(p)
    \/ \E new_mempool_state \in MempoolStates :
          ReceiveMempoolStateChanged(new_mempool_state)

SpecHead == InitChain /\ [][NextHead]_vars

\* C23: in the broadcast of a head increment every peer with the mempool
\* enabled receives the current mempool of the node, every other peer an
\* empty one
C23_BroadcastCarriesMempool ==
    [][\A b \in ChainBlocks :
          (BecomesLocalHead(b) /\ cm'.is_bootstrapped /\ IsHeadIncrement(b))
             => \A s \in sys'.sent :
                   s.current_mempool =
                       resolve_mempool_to_send_to_peer(
                           cm'.peers[s.to], cm'.current_mempool_state,
                           cm'.current_head.local[1])]_vars

\* C24: no CurrentHead message to a peer with the mempool disabled carries
\* operations, whichever handler sent it, and the reply to GetCurrentHead
\* carries operations only when the head of the mempool state is the local
\* head
C24_NoMempoolToDisabledPeer ==
    /\ \A s \in sys.sent :
          PeerMetadata[s.to].disable_mempool
             => Mempool_is_empty(s.current_mempool)
    /\ \A p \in DOMAIN cm.peers :
          \A s \in on_GetCurrentHead(World, p).sys.sent :
             /\ PeerMetadata[s.to].disable_mempool
                   => Mempool_is_empty(s.current_mempool)
             /\ ~Mempool_is_empty(s.current_mempool)
                   => /\ cm.current_mempool_state # None
                      /\ cm.current_mempool_state[1].head =
                            Some(cm.current_head.local[1].block_hash)

\* a peer with the mempool disabled was answered while the mempool state
\* of the local head holds operations
C24_Witness ==
    /\ cm.current_mempool_state # None
    /\ cm.current_head.local # None
    /\ cm.current_mempool_state[1].head =
          Some(cm.current_head.local[1].block_hash)
    /\ ~Mempool_is_empty(resolve_mempool_to_send(cm.current_mempool_state[1]))
    /\ \E s \in sys.sent :
          /\ PeerMetadata[s.to].disable_mempool
          /\ s.header = cm.current_head.local[1].block_hash
          /\ Mempool_is_empty(s.current_mempool)

-----------------------------------------------------------------------------
\* Stalled peers.  Time is in seconds; every handler that reads the clock
\* reads a later instant than the one before it.

CURRENT_HEAD_LEVEL_UPDATE_TIMEOUT == 120
SILENT_PEER_TIMEOUT == 30
SILENT_PEER_TIMEOUT_SANDBOX == 31536000
MaxClock == 140
StalledPeers == {"p1"}
StalledBlocks == {"A1", "A2"}
StalledOperations == {"o1"}

\* the instants and the queues of PeerState::new
PeerClock_new(now) ==
    [current_head_update_last |-> now,
     block_request_last |-> now, block_response_last |-> now,
     block_operations_request_last |-> now,
     block_operations_response_last |-> now,
     mempool_operations_request_last |-> now,
     mempool_operations_response_last |-> now,
     queued_block_headers |-> {}, queued_block_operations |-> {},
     queued_mempool_operations |-> {}]

\* the period of DisconnectStalledPeers that pre_start schedules
peer_timeout(is_sandbox) ==
    IF is_sandbox THEN SILENT_PEER_TIMEOUT_SANDBOX
    ELSE SILENT_PEER_TIMEOUT \div 2

\* should_disconnect of Receive<DisconnectStalledPeers>, at the instant now
should_disconnect(state, now) ==
    LET block_response_pending ==
            state.block_request_last > state.block_response_last
        block_operations_response_pending ==
            state.block_operations_request_last
                > state.block_operations_response_last
        mempool_operations_response_pending ==
            state.mempool_operations_request_last
                > state.mempool_operations_response_last
    IN IF now - state.current_head_update_last
              > CURRENT_HEAD_LEVEL_UPDATE_TIMEOUT
       THEN TRUE
       ELSE IF /\ block_response_pending
               /\ state.block_request_last - state.block_response_last
                     > SILENT_PEER_TIMEOUT
       THEN TRUE
       ELSE IF /\ block_operations_response_pending
               /\ state.block_operations_request_last
                     - state.block_operations_response_last
                     > SILENT_PEER_TIMEOUT
       THEN TRUE
       ELSE IF /\ block_response_pending
               /\ state.queued_block_headers # {}
               /\ now - state.block_response_last > SILENT_PEER_TIMEOUT
       THEN TRUE
       ELSE IF /\ block_operations_response_pending
               /\ state.queued_block_operations # {}
               /\ now - state.block_operations_response_last
                     > SILENT_PEER_TIMEOUT
       THEN TRUE
       ELSE IF /\ mempool_operations_response_pending
               /\ state.queued_mempool_operations # {}
               /\ now - state.mempool_operations_response_last
                     > SILENT_PEER_TIMEOUT
       THEN TRUE
       ELSE FALSE

\* Receive<DisconnectStalledPeers>
on_DisconnectStalledPeers(w) ==
    [w EXCEPT !.sys.stopped =
        @ \cup {p \in DOMAIN w.cm.peers :
                   should_disconnect(w.cm.peers[p], w.cm.now)}]

InitStalled ==
    /\ MerkleInit
    /\ HasherIdle
    /\ \E is_sandbox \in BOOLEAN :
          cm = [is_sandbox |-> is_sandbox, now |-> 0,
                peers |-> [p \in StalledPeers |-> PeerClock_new(0)]]
    /\ storage = <<>>
    /\ sys = [stopped |-> {}]
    /\ handled = 0

\* a handler that reads the clock once and leaves the peer p as state
Stamped(p, state) ==
    /\ handled < MaxEvents
    /\ cm.now < MaxClock
    /\ p \notin sys.stopped
    /\ cm' = [cm EXCEPT !.now = cm.now + 1, !.peers[p] = state]
    /\ handled' = handled + 1
    /\ UNCHANGED <<storage, sys, merkle_vars, hash_vars>>

\* lines 277-290: the blocks not queued yet are requested
StalledRequestBlocks(p, blocks) ==
    /\ blocks \ cm.peers[p].queued_block_headers # {}
    /\ Stamped(p, [cm.peers[p] EXCEPT
                      !.queued_block_headers = @ \cup blocks,
                      !.block_request_last = cm.now + 1])

\* lines 452-454
StalledBlockHeader(p, b) ==
    /\ b \in cm.peers[p].queued_block_headers
    /\ Stamped(p, [cm.peers[p] EXCEPT
                      !.queued_block_headers = @ \ {b},
                      !.block_response_last = cm.now + 1])

\* lines 300-322
StalledRequestOperations(p, blocks) ==
    /\ blocks \ cm.peers[p].queued_block_operations # {}
    /\ Stamped(p, [cm.peers[p] EXCEPT
                      !.queued_block_operations = @ \cup blocks,
                      !.block_operations_request_last = cm.now + 1])

\* lines 521-526, the last validation pass of b
StalledOperationsForBlocks(p, b) ==
    /\ b \in cm.peers[p].queued_block_operations
    /\ Stamped(p, [cm.peers[p] EXCEPT
                      !.queued_block_operations = @ \ {b},
                      !.block_operations_response_last = cm.now + 1])

\* lines 237-257
StalledRequestMempool(p, ops) ==
    /\ ops # {}
    /\ Stamped(p, [cm.peers[p] EXCEPT
                      !.queued_mempool_operations = @ \cup ops,
                      !.mempool_operations_request_last = cm.now + 1])

\* lines 619-652: the operation leaves the queue; the response is stamped
\* only when prevalidation lets the handler go on
StalledOperation(p, o, prevalidated) ==
    /\ o \in cm.peers[p].queued_mempool_operations
    /\ Stamped(p, [cm.peers[p] EXCEPT
                      !.queued_mempool_operations = @ \ {o},
                      !.mempool_operations_response_last =
                          IF prevalidated THEN cm.now + 1 ELSE @])

\* lines 406-409: a branch of a higher level
StalledCurrentBranch(p) ==
    Stamped(p, [cm.peers[p] EXCEPT !.current_head_update_last = cm.now + 1])

\* the scheduled DisconnectStalledPeers arrives a period later
ReceiveDisconnectStalledPeers ==
    /\ cm.now + peer_timeout(cm.is_sandbox) <= MaxClock
    /\ cm' = [cm EXCEPT !.now = @ + peer_timeout(cm.is_sandbox)]
    /\ sys' = on_DisconnectStalledPeers(
                  [cm |-> cm', storage |-> storage, sys |-> sys]).sys
    /\ UNCHANGED <<storage, handled, merkle_vars, hash_vars>>

NextStalled ==
    \/ \E p \in StalledPeers, blocks \in SUBSET StalledBlocks :
          StalledRequestBlocks(p, blocks)
    \/ \E p \in StalledPeers, b \in StalledBlocks : StalledBlockHeader(p, b)
    \/ \E p \in StalledPeers, blocks \in SUBSET StalledBlocks :
          StalledRequestOperations(p, blocks)
    \/ \E p \in StalledPeers, b \in StalledBlocks :
          StalledOperationsForBlocks(p, b)
    \/ \E p \in StalledPeers, ops \in SUBSET StalledOperations :
          StalledRequestMempool(p, ops)
    \/ \E p \in StalledPeers, o \in StalledOperations :
          \E prevalidated \in BOOLEAN : StalledOperation(p, o, prevalidated)
    \/ \E p \in StalledPeers : StalledCurrentBranch(p)
    \/ ReceiveDisconnectStalledPeers

SpecStalled == InitStalled /\ [][NextStalled]_vars

\* the three reasons of the policy, for the peer state at the instant now
StalledByPolicy(state, now) ==
    \/ now - state.current_head_update_last > 120
    \/ state.block_request_last - state.block_response_last > 30
    \/ state.block_operations_request_last
           - state.block_operations_response_last > 30
    \/ state.mempool_operations_request_last
           - state.mempool_operations_response_last > 30
    \/ state.queued_block_headers # {}
          /\ now - state.block_response_last > 30
    \/ state.queued_block_operations # {}
          /\ now - state.block_operations_response_last > 30
    \/ state.queued_mempool_operations # {}
          /\ now - state.mempool_operations_response_last > 30

\* C25: outside sandbox mode every DisconnectStalledPeers stops each peer
\* whose head level was not updated for more than 120 s, or whose last
\* request in a category is more than 30 s after the last response, or
\* whose queue in a category is not empty more than 30 s after the last
\* response
C25_StalledPeersStopped ==
    [][(~cm.is_sandbox /\ cm'.now = cm.now + peer_timeout(FALSE))
          => \A p \in DOMAIN cm'.peers :
                StalledByPolicy(cm'.peers[p], cm'.now)
                   => p \in sys'.stopped]_vars

-----------------------------------------------------------------------------
\* Peers that go away, and the shutdown

\* Receive<DeadLetter>
on_DeadLetter(w, p) ==
    [w EXCEPT !.cm.peers = [x \in DOMAIN @ \ {p} |-> @[x]]]

\* ShellChannelMsg::ShuttingDown: the flag is set and no dead letter is
\* received any more
on_ShuttingDown(w) == [w EXCEPT !.cm.shutting_down = TRUE]

ReceiveDeadLetter(p) ==
    /\ ~cm.shutting_down
    /\ p \in DOMAIN cm.peers
    /\ Handled(on_DeadLetter(World, p))

ReceiveShuttingDown == Handled(on_ShuttingDown(World))

NextLifecycle ==
    \/ NextChain
    \/ \E p \in ChainPeers : ReceiveDeadLetter(p)
    \/ ReceiveShuttingDown

SpecLifecycle == InitChain /\ [][NextLifecycle]_vars

\* C26: whenever a peer is removed, by the end of its actor or by a dead
\* letter, every header and every operations entry queued at it is back in
\* the missing sets
C26_RemovedPeerRequeued ==
    [][\A p \in DOMAIN cm.peers :
          p \notin DOMAIN cm'.peers
             => /\ cm.peers[p].queued_block_headers
                      \subseteq cm'.missing_blocks
                /\ DOMAIN cm.peers[p].queued_block_operations
                      \subseteq cm'.missing_operations]_vars

\* C27: once ShuttingDown is processed, no later step changes the state of
\* the manager, tells a peer anything or publishes ApplyBlock
C27_NothingAfterShutdown ==
    [][cm.shutting_down
          => /\ cm' = cm
             /\ sys'.sent = {}
             /\ sys'.apply_block = sys.apply_block]_vars

-----------------------------------------------------------------------------
\* Bootstrap from one peer: the node holds only genesis as its head, p1 is on
\* the branch A1, A2, A3 and answers what it is asked

MaxPending == 1
SyncPeer == "p1"
SyncHead == "A3"
SyncBlocks == {"A1", "A2", "A3"}

InitSync ==
    /\ MerkleInit
    /\ HasherIdle
    /\ \E stored \in {s \in ChainStorages :
                        s.current_head # None /\ s.blocks = {Genesis}} :
          /\ storage = stored
          /\ cm = pre_start(stored,
                            num_of_peers_for_bootstrap_threshold).cm
          /\ sys = pre_start(stored,
                             num_of_peers_for_bootstrap_threshold).sys
    /\ handled = 0

\* the commands and requests of the apply pipeline that wait for a step
PendingApply ==
    Len(sys.apply)
        + Cardinality({i \in 1..Len(sys.apply_block) :
                          ~storage.meta[sys.apply_block[i]].is_applied})

SyncPeerBootstrapped ==
    /\ SyncPeer \notin DOMAIN cm.peers
    /\ Delivered(on_PeerBootstrapped(World, SyncPeer))

\* the peer answers GetCurrentBranch with its head; the history names no
\* block the node does not have, so that the node finds the branch header
\* by header
SyncCurrentBranch ==
    /\ SyncPeer \in DOMAIN cm.peers
    /\ Delivered(on_CurrentBranch(World, SyncPeer, SyncHead, {}))

\* the peer answers GetBlockHeaders with a header it was asked for
SyncBlockHeader(b) ==
    /\ SyncPeer \in DOMAIN cm.peers
    /\ b \in cm.peers[SyncPeer].queued_block_headers
    /\ Delivered(on_BlockHeader(World, SyncPeer, b))

\* the peer answers GetOperationsForBlocks with a pass it was asked for
SyncOperationsForBlocks(b, pass) ==
    /\ SyncPeer \in DOMAIN cm.peers
    /\ b \in DOMAIN cm.peers[SyncPeer].queued_block_operations
    /\ pass \in cm.peers[SyncPeer].queued_block_operations[b]
    /\ Delivered(on_OperationsForBlocks(World, SyncPeer, b, pass))

\* the scheduled CheckChainCompleteness, not faster than the pipeline
SyncCheckChainCompleteness(order, stalled) ==
    /\ PendingApply < MaxPending
    /\ Delivered(check_chain_completeness(World, order, stalled))

\* the peer connects and announces its branch, now and again
PeerAnnounces ==
    \/ SyncPeerBootstrapped
    \/ SyncCurrentBranch

\* the peer answers a request that is open
PeerAnswers ==
    \/ \E b \in SyncBlocks : SyncBlockHeader(b)
    \/ \E b \in SyncBlocks, pass \in ValidationPasses :
          SyncOperationsForBlocks(b, pass)

\* the timer of CheckChainCompleteness
TimerFires ==
    \E order \in PeerOrders(World), stalled \in BOOLEAN :
       SyncCheckChainCompleteness(order, stalled)

\* the applier applies a block it was asked to apply
ApplierApplies == \E b \in SyncBlocks : BlockApplier(b)

\* a BlockApplied event in the mailbox of the manager is delivered
BlockAppliedArrives ==
    \E b \in ChainBlocks \cup SyncBlocks : ReceiveBlockApplied(b)

NextSync ==
    \/ PeerAnnounces
    \/ PeerAnswers
    \/ TimerFires
    \/ ReceiveApplyCompletedBlock
    \/ ApplierApplies
    \/ BlockAppliedArrives

\* the peer goes on answering while a request is open, the timer goes on
\* firing, every kind of message in the mailbox of the manager is delivered
\* and the applier applies what it was asked to apply
FairSync ==
    /\ WF_vars(PeerAnnounces)
    /\ WF_vars(PeerAnswers)
    /\ WF_vars(TimerFires)
    /\ WF_vars(ReceiveApplyCompletedBlock)
    /\ WF_vars(ApplierApplies)
    /\ WF_vars(BlockAppliedArrives)

SpecSync == InitSync /\ [][NextSync]_vars /\ FairSync

-----------------------------------------------------------------------------
\* The block_id parameter of the RPC.  A string is a sequence of characters.

Digits == <<"0", "1", "2", "3", "4", "5", "6", "7", "8", "9">>
HeadParam == <<"h", "e", "a", "d">>
GenesisParam == <<"g", "e", "n", "e", "s", "i", "s">>
Separators == {"~", "-", "+"}
MaxDistance == 2

\* the chain in the storage of the RPC server, by level, and the base58
\* text of the hashes
RpcChain == <<"G", "A1", "A2", "A3">>
HashText == [G |-> <<"B", "G">>, A1 |-> <<"B", "A", "1">>,
             A2 |-> <<"B", "A", "2">>, A3 |-> <<"B", "A", "3">>]
RpcHeads == {"A2", "A3"}

\* str::contains(char)
contains(s, c) == \E i \in 1..Len(s) : s[i] = c

\* str::split(char), collected
RECURSIVE split(_, _)
split(s, c) ==
    IF ~contains(s, c) THEN <<s>>
    ELSE LET i == CHOOSE k \in 1..Len(s) :
                     s[k] = c /\ \A j \in 1..(k - 1) : s[j] # c
         IN <<SubSeq(s, 1, i - 1)>> \o split(SubSeq(s, i + 1, Len(s)), c)

DigitValue(ch) == (CHOOSE d \in 1..10 : Digits[d] = ch) - 1

IsDigits(s) ==
    Len(s) > 0 /\ \A i \in 1..Len(s) : \E d \in 1..10 : Digits[d] = s[i]

RECURSIVE DigitsValue(_)
DigitsValue(s) ==
    IF s = <<>> THEN 0
    ELSE 10 * DigitsValue(SubSeq(s, 1, Len(s) - 1)) + DigitValue(s[Len(s)])

\* str::parse::<i32>(): digits with an optional sign
parse_i32(s) ==
    IF s # <<>> /\ s[1] \in {"+", "-"}
    THEN IF IsDigits(Tail(s))
         THEN Ok(IF s[1] = "-" THEN 0 - DigitsValue(Tail(s))
                 ELSE DigitsValue(Tail(s)))
         ELSE Err("ParseIntError")
    ELSE IF IsDigits(s) THEN Ok(DigitsValue(s))
    ELSE Err("ParseIntError")

\* HashType::BlockHash.string_to_bytes
string_to_bytes(s) ==
    IF \E b \in DOMAIN HashText : HashText[b] = s
    THEN Ok(CHOOSE b \in DOMAIN HashText : HashText[b] = s)
    ELSE Err("FromBase58CheckError")

RpcLevel(b) == CHOOSE l \in 0..(Len(RpcChain) - 1) : RpcChain[l + 1] = b

\* BlockMetaStorage::find_block_at_distance: the block that many levels
\* before, if there is one
find_block_at_distance(block_hash, distance) ==
    IF RpcLevel(block_hash) - distance \in 0..(Len(RpcChain) - 1)
    THEN Some(RpcChain[RpcLevel(block_hash) - distance + 1])
    ELSE None

\* lines 431-457 for a parameter with an offset: the parameter is split at
\* '~' whichever character was found; sign is 1, or -1 for '+'
SplitOffset(block_id_param, sign) ==
    LET splits == split(block_id_param, "~") IN
    IF Len(splits) = 1 THEN Ok(<<splits[1], None>>)
    ELSE IF Len(splits) = 2
    THEN IF IsOk(parse_i32(splits[2]))
         THEN Ok(<<splits[1], Some(parse_i32(splits[2])[2] * sign)>>)
         ELSE parse_i32(splits[2])
    ELSE Err("Invalid block_id parameter")

\* lines 431-457
BlockAndOffset(block_id_param) ==
    IF contains(block_id_param, "~") THEN SplitOffset(block_id_param, 1)
    ELSE IF contains(block_id_param, "-") THEN SplitOffset(block_id_param, 1)
    ELSE IF contains(block_id_param, "+")
    THEN SplitOffset(block_id_param, 0 - 1)
    ELSE Ok(<<block_id_param, None>>)

\* lines 473-539: the block to start from and the offset from it
HashAndOffset(block_param, offset_param, head) ==
    IF block_param = HeadParam
    THEN IF offset_param # None /\ offset_param[1] < 0
         THEN Err("Offset for `head` parameter cannot be used with '+'")
         ELSE Ok(<<head, offset_param>>)
    ELSE IF block_param = GenesisParam
    THEN IF offset_param # None /\ offset_param[1] > 0
         THEN Err("Offset for `genesis` parameter cannot be used with '~/-'")
         ELSE Ok(<<RpcChain[1], offset_param>>)
    ELSE IF IsOk(parse_i32(block_param))
    THEN Ok(<<head,
              Some(RpcLevel(head) - parse_i32(block_param)[2]
                     - (IF offset_param = None THEN 0 ELSE offset_param[1]))>>)
    ELSE IF IsOk(string_to_bytes(block_param))
    THEN Ok(<<string_to_bytes(block_param)[2], offset_param>>)
    ELSE Err("Invalid block_id_param")

\* lines 541-552
FindRequested(block_hash, offset) ==
    IF offset = None THEN Ok(block_hash)
    ELSE IF find_block_at_distance(block_hash, offset[1]) = None
    THEN Err("Unknown block for block_id_param")
    ELSE Ok(find_block_at_distance(block_hash, offset[1])[1])

\* parse_block_hash
parse_block_hash(block_id_param, head) ==
    IF ~IsOk(BlockAndOffset(block_id_param))
    THEN BlockAndOffset(block_id_param)
    ELSE IF ~IsOk(HashAndOffset(BlockAndOffset(block_id_param)[2][1],
                                BlockAndOffset(block_id_param)[2][2], head))
    THEN HashAndOffset(BlockAndOffset(block_id_param)[2][1],
                       BlockAndOffset(block_id_param)[2][2], head)
    ELSE FindRequested(
             HashAndOffset(BlockAndOffset(block_id_param)[2][1],
                           BlockAndOffset(block_id_param)[2][2], head)[2][1],
             HashAndOffset(BlockAndOffset(block_id_param)[2][1],
                           BlockAndOffset(block_id_param)[2][2], head)[2][2])

\* the bases a client can name: head, genesis, a level, a hash
BlockIdBases ==
    {[kind |-> "head", text |-> HeadParam],
     [kind |-> "genesis", text |-> GenesisParam]}
      \cup {[kind |-> "level", level |-> l, text |-> <<Digits[l + 1]>>] :
               l \in 0..(Len(RpcChain) - 1)}
      \cup {[kind |-> "hash", hash |-> b, text |-> HashText[b]] :
               b \in DOMAIN HashText}

InitBlockId ==
    /\ MerkleInit
    /\ HasherIdle
    /\ cm = <<>>
    /\ \E head \in RpcHeads : storage = [current_head |-> head]
    /\ sys = [request |-> None, response |-> None]
    /\ handled = 0

\* GET /chains/main/blocks/<base><separator><distance>
RequestBlockWithOffset(base, separator, distance) ==
    /\ sys' = [request |-> Some([base |-> base, separator |-> separator,
                                 distance |-> distance]),
               response |-> parse_block_hash(
                                base.text \o <<separator>>
                                    \o <<Digits[distance + 1]>>,
                                storage.current_head)]
    /\ UNCHANGED <<cm, storage, handled, merkle_vars, hash_vars>>

\* GET /chains/main/blocks/<base>
RequestBlock(base) ==
    /\ sys' = [request |-> Some([base |-> base]),
               response |-> parse_block_hash(base.text,
                                             storage.current_head)]
    /\ UNCHANGED <<cm, storage, handled, merkle_vars, hash_vars>>

NextBlockId ==
    \/ \E base \in BlockIdBases, separator \in Separators :
          \E distance \in 0..MaxDistance :
             RequestBlockWithOffset(base, separator, distance)
    \/ \E base \in BlockIdBases : RequestBlock(base)

SpecBlockId == InitBlockId /\ [][NextBlockId]_vars

\* the level of the block a base names
BaseLevel(base, head) ==
    IF base.kind = "head" THEN RpcLevel(head)
    ELSE IF base.kind = "genesis" THEN 0
    ELSE IF base.kind = "level" THEN base.level
    ELSE RpcLevel(base.hash)

\* the level the request asks for: before the base for '~' and '-', after
\* it for '+'
RequestedLevel(request, head) ==
    IF request.separator = "+"
    THEN BaseLevel(request.base, head) + request.distance
    ELSE BaseLevel(request.base, head) - request.distance

\* C29: <base>~<N> and <base>-<N> resolve to the block N levels before the
\* base and <base>+<N> to the block N levels after it, for a base that is
\* head, genesis, a level or a hash, whenever the chain up to the head has
\* a block at that level
C29_OffsetsResolved ==
    (/\ sys.request # None
     /\ "separator" \in DOMAIN sys.request[1]
     /\ RequestedLevel(sys.request[1], storage.current_head)
           \in 0..RpcLevel(storage.current_head))
       => sys.response =
             Ok(RpcChain[RequestedLevel(sys.request[1],
                                        storage.current_head) + 1])

-----------------------------------------------------------------------------
\* The stream of GET /monitor/heads.  Time is in whole seconds, as
\* Utc::now().timestamp() gives it.

MaxSeconds == 2
MaxHeadChanges == 3

\* the line of a head: BlockHeaderInfo::to_monitor_header as JSON, and a
\* newline
MonitorLine(b) ==
    [hash |-> HashText[b], level |-> RpcLevel(b), end |-> "\n"]

\* MonitorHeadStream::poll_next on the stream and the collected state, at
\* the second now: the stream it leaves and what it returns
poll_next(stream, state, now) ==
    IF stream.last_polled_timestamp # None
    THEN IF stream.last_polled_timestamp[1] < state.head_update_time
         THEN [stream |-> [stream EXCEPT !.last_polled_timestamp = Some(now)],
               poll |-> <<"Ready", Some(Ok(MonitorLine(state.current_head)))>>]
         ELSE [stream |-> stream, poll |-> <<"Pending">>]
    ELSE [stream |-> [stream EXCEPT !.last_polled_timestamp = Some(now)],
          poll |-> <<"Pending">>]

\* the client is connected: get_current_head_monitor_header made the stream
InitMonitor ==
    /\ MerkleInit
    /\ HasherIdle
    /\ storage = [current_head |-> RpcChain[1], head_update_time |-> 0]
    /\ cm = [last_polled_timestamp |-> None]
    /\ sys = [now |-> 0, polled |-> None, lines |-> <<>>, changes |-> <<>>]
    /\ handled = 0

\* the local head changes; sys.changes keeps the heads that changed after
\* the first poll of the stream
HeadChanges(b) ==
    /\ Len(sys.changes) < MaxHeadChanges
    /\ handled < MaxHeadChanges
    /\ b # storage.current_head
    /\ storage' = [current_head |-> b, head_update_time |-> sys.now]
    /\ sys' = [sys EXCEPT
                  !.polled = None,
                  !.changes = IF cm.last_polled_timestamp = None THEN @
                              ELSE Append(@, b)]
    /\ handled' = handled + 1
    /\ UNCHANGED <<cm, merkle_vars, hash_vars>>

SecondPasses ==
    /\ sys.now < MaxSeconds
    /\ sys' = [sys EXCEPT !.now = @ + 1, !.polled = None]
    /\ UNCHANGED <<cm, storage, handled, merkle_vars, hash_vars>>

\* the server polls the stream; a line that is ready goes to the client
PollNext ==
    /\ cm' = poll_next(cm, storage, sys.now).stream
    /\ sys' = [sys EXCEPT
                  !.polled = Some(poll_next(cm, storage, sys.now).poll[1]),
                  !.lines =
                      IF poll_next(cm, storage, sys.now).poll[1] = "Ready"
                      THEN Append(@, poll_next(cm, storage,
                                               sys.now).poll[2][1][2])
                      ELSE @]
    /\ UNCHANGED <<storage, handled, merkle_vars, hash_vars>>

NextMonitor ==
    \/ \E b \in {RpcChain[i] : i \in 2..Len(RpcChain)} : HeadChanges(b)
    \/ SecondPasses
    \/ PollNext

SpecMonitor == InitMonitor /\ [][NextMonitor]_vars

\* the lines of the head changes, in their order
LinesOf(changes) == [i \in 1..Len(changes) |-> MonitorLine(changes[i])]

\* C30: the stream gives one line for every change of the local head while
\* the client is connected, none skipped and none twice: the lines sent are
\* the first of the head changes, in order, and the stream reports nothing
\* to send only when every head change has its line
C30_OneLinePerHeadChange ==
    /\ Len(sys.lines) <= Len(sys.changes)
    /\ sys.lines = SubSeq(LinesOf(sys.changes), 1, Len(sys.lines))
    /\ (sys.polled = Some("Pending") /\ sys.changes # <<>>)
          => sys.lines = LinesOf(sys.changes)

(***************************************************************************)
(* The root lookup of compute_new_root_with_change (line 678)              *)
(***************************************************************************)
RootLookupFailed ==
    /\ lastOp.op = "commit"
    /\ lastOp.res = Panic("root tree not in staging area")

\* C31: whenever compute_new_root_with_change runs during a commit the
\* current root tree is in the staging area, so that the lookup of line 678
\* never fails, also when a delete or a copy is the first action replayed
\* after a commit or a checkout emptied the staging area.
C31_RootTreeIsStaged == ~RootLookupFailed

-----------------------------------------------------------------------------
\* Mempool operations of the peers.  The prevalidator is outside the
\* manager: what it says about an operation comes with the message.

MEMPOOL_OPERATIONS_BATCH_SIZE == 10
ChainId == "main"
MessageChainIds == {"main", "test"}
\* Ok results a peer's operation is accepted with or not, the two
\* transient errors, any other PrevalidateOperationError
Prevalidations ==
    {"Applied", "Refused", "UnknownBranch", "BranchNotAppliedYet",
     "OtherError"}

CurrentHeadFrom(chain_id, known_valid, pending) ==
    [type |-> "CurrentHead", chain_id |-> chain_id,
     known_valid |-> known_valid, pending |-> pending]

OperationFrom(operation, prevalidation) ==
    [type |-> "Operation", operation |-> operation,
     prevalidation |-> prevalidation]

\* a capacity that is the whole batch whatever is queued
available_mempool_operations_queue_capacity_of_empty_queue(peer) ==
    MEMPOOL_OPERATIONS_BATCH_SIZE

\* PeerState::available_mempool_operations_queue_capacity
available_mempool_operations_queue_capacity(peer) ==
    IF Cardinality(DOMAIN peer.queued_mempool_operations)
           < MEMPOOL_OPERATIONS_BATCH_SIZE
    THEN MEMPOOL_OPERATIONS_BATCH_SIZE
             - Cardinality(DOMAIN peer.queued_mempool_operations)
    ELSE 0

\* lines 241-250: the head of the backlog moves to the queue; a hash that
\* comes twice keeps the type it came with last
EnqueueMempoolOperations(peer, num_opts_to_get) ==
    LET ops_to_enqueue ==
            SubSeq(peer.missing_mempool_operations, 1, num_opts_to_get)
        hashes == {ops_to_enqueue[i][1] : i \in 1..num_opts_to_get}
        last(h) == CHOOSE i \in 1..num_opts_to_get :
                      /\ ops_to_enqueue[i][1] = h
                      /\ \A j \in (i + 1)..num_opts_to_get :
                            ops_to_enqueue[j][1] # h
    IN [peer EXCEPT
           !.missing_mempool_operations =
               SubSeq(@, num_opts_to_get + 1, Len(@)),
           !.queued_mempool_operations =
               [h \in DOMAIN @ \cup hashes |->
                   IF h \in hashes THEN ops_to_enqueue[last(h)][2]
                   ELSE @[h]]]

\* lines 238-239: the peers check_mempool_completeness asks
AsksForMempool(peer) ==
    /\ peer.missing_mempool_operations # <<>>
    /\ available_block_operations_queue_capacity(peer) > 0

\* lines 241-242
NumOpsToGet(peer) ==
    IF Len(peer.missing_mempool_operations)
           <= available_mempool_operations_queue_capacity(peer)
    THEN Len(peer.missing_mempool_operations)
    ELSE available_mempool_operations_queue_capacity(peer)

\* line 257: GetOperationsMessage::new(ops_to_get)
GetOperationsMessage(p, peer) ==
    [to |-> p,
     get_operations |->
         [i \in 1..NumOpsToGet(peer) |->
             peer.missing_mempool_operations[i][1]]]

\* ChainManager::check_mempool_completeness
check_mempool_completeness(w) ==
    [w EXCEPT
        !.cm.peers =
            [p \in DOMAIN w.cm.peers |->
                IF AsksForMempool(w.cm.peers[p])
                THEN EnqueueMempoolOperations(w.cm.peers[p],
                                              NumOpsToGet(w.cm.peers[p]))
                ELSE w.cm.peers[p]],
        !.sys.sent =
            @ \cup {GetOperationsMessage(p, w.cm.peers[p]) :
                       p \in {x \in DOMAIN w.cm.peers :
                                 AsksForMempool(w.cm.peers[x])}}]

\* Receive<CheckMempoolCompleteness>
on_CheckMempoolCompleteness(w) ==
    IF w.cm.shutting_down THEN w ELSE check_mempool_completeness(w)

\* lines 592-597: known_valid and pending both go to the backlog as Pending
AsPending(hashes) == [i \in 1..Len(hashes) |-> <<hashes[i], "Pending">>]

\* ctx.myself().tell(CheckMempoolCompleteness, None)
tell_CheckMempoolCompleteness(w) == [w EXCEPT !.sys.check_mempool = @ + 1]

\* PeerMessage::CurrentHead
on_CurrentHead(w, p, message) ==
    IF message.chain_id # ChainId THEN w
    ELSE tell_CheckMempoolCompleteness(
             [w EXCEPT !.cm.peers[p].missing_mempool_operations =
                 @ \o AsPending(message.known_valid)
                   \o AsPending(message.pending)])

\* what the handler of one message of a batch leaves: the state, and
\* whether the loop goes on ("Next") or the function returns Ok or Err
Step(w, tag) == [w |-> w, tag |-> tag]

\* lines 646-664
StoreMempoolOperation(w, operation_hash, operation_type) ==
    [tell_CheckMempoolCompleteness(w) EXCEPT
        !.storage.mempool = @ \cup {<<operation_hash, operation_type>>},
        !.sys.published =
            @ \cup {[operation_hash |-> operation_hash,
                     operation_type |-> operation_type]}]

\* lines 622-644, on the state the operation left the queue in
Prevalidate(removed, operation_hash, operation_type, prevalidation) ==
    CASE prevalidation \in {"UnknownBranch", "BranchNotAppliedYet"} ->
             Step(removed, "Ok")
      [] prevalidation = "OtherError" -> Step(removed, "Err")
      [] prevalidation = "Refused" -> Step(removed, "Err")
      [] prevalidation = "Applied" ->
             Step(StoreMempoolOperation(removed, operation_hash,
                                        operation_type),
                  "Next")

\* PeerMessage::Operation that stores whatever prevalidation says
on_Operation_of_any_outcome(w, p, message) ==
    IF message.operation
           \notin DOMAIN w.cm.peers[p].queued_mempool_operations
    THEN Step(w, "Next")
    ELSE Prevalidate(
             [w EXCEPT !.cm.peers[p].queued_mempool_operations =
                 [h \in DOMAIN @ \ {message.operation} |-> @[h]]],
             message.operation,
             w.cm.peers[p].queued_mempool_operations[message.operation],
             "Applied")

\* PeerMessage::Operation
on_Operation(w, p, message) ==
    IF message.operation
           \notin DOMAIN w.cm.peers[p].queued_mempool_operations
    THEN Step(w, "Next")
    ELSE Prevalidate(
             [w EXCEPT !.cm.peers[p].queued_mempool_operations =
                 [h \in DOMAIN @ \ {message.operation} |-> @[h]]],
             message.operation,
             w.cm.peers[p].queued_mempool_operations[message.operation],
             message.prevalidation)

\* one arm of the match of line 377
HandlePeerMessage(w, p, message) ==
    CASE message.type = "CurrentHead" ->
             Step(on_CurrentHead(w, p, message), "Next")
      [] message.type = "Operation" -> on_Operation(w, p, message)

\* lines 376-377: for message in received.message.messages()
RECURSIVE HandlePeerMessages(_, _, _)
HandleRemaining(r, p, messages) ==
    IF r.tag # "Next" THEN r ELSE HandlePeerMessages(r.w, p, messages)

HandlePeerMessages(w, p, messages) ==
    IF messages = <<>> THEN Step(w, "Ok")
    ELSE HandleRemaining(HandlePeerMessage(w, p, Head(messages)), p,
                         Tail(messages))

\* NetworkChannelMsg::PeerMessageReceived
on_PeerMessageReceived(w, p, messages) ==
    IF p \notin DOMAIN w.cm.peers THEN Step(w, "Ok")
    ELSE HandlePeerMessages(w, p, messages)

-----------------------------------------------------------------------------
\* The request queues of the peers, with more to ask for than a batch holds:
\* a branch of eleven blocks and a mempool of eleven operations.

MaxQueueEvents == 5
QueuePeers == {"p1", "p2"}
QueueBlocks == {LongBranch[i] : i \in 1..Len(LongBranch)}
QueueOperations ==
    <<"o1", "o2", "o3", "o4", "o5", "o6", "o7", "o8", "o9", "o10", "o11">>
QueueOperationHashes == {QueueOperations[i] : i \in 1..Len(QueueOperations)}
\* the mempools a peer advertises: all the operations, or the first one
QueueMempools ==
    {[known_valid |-> SubSeq(QueueOperations, 1, 6),
      pending |-> SubSeq(QueueOperations, 7, Len(QueueOperations))],
     [known_valid |-> <<>>, pending |-> SubSeq(QueueOperations, 1, 1)]}

\* the headers of the branch stored, none of their operations
RECURSIVE StoreHeaders(_, _)
StoreHeaders(stored, n) ==
    IF n = 0 THEN stored
    ELSE LET below == StoreHeaders(stored, n - 1) IN
         [below EXCEPT !.blocks = @ \cup {LongBranch[n]},
                       !.meta = put_block_header(@, LongBranch[n])]

\* the node starts with genesis only, or went down after the headers of
\* the branch had arrived
QueueStorages ==
    LET genesis == CHOOSE s \in ChainStorages :
                      s.current_head # None /\ s.blocks = {Genesis}
    IN {genesis, StoreHeaders(genesis, Len(LongBranch))}

InitQueues ==
    /\ MerkleInit
    /\ HasherIdle
    /\ \E stored \in QueueStorages :
          /\ storage = stored
          /\ cm = pre_start(stored,
                            num_of_peers_for_bootstrap_threshold).cm
          /\ sys = pre_start(stored,
                             num_of_peers_for_bootstrap_threshold).sys
    /\ handled = 0

QueueHandled(w) ==
    /\ handled < MaxQueueEvents
    /\ cm' = w.cm
    /\ storage' = w.storage
    /\ sys' = w.sys
    /\ handled' = handled + 1
    /\ UNCHANGED <<merkle_vars, hash_vars>>

QueuePeerBootstrapped(p) ==
    /\ p \notin DOMAIN cm.peers
    /\ QueueHandled(on_PeerBootstrapped(World, p))

\* the peer announces the branch with all the blocks below its head
QueueCurrentBranch(p) ==
    /\ p \in DOMAIN cm.peers
    /\ QueueHandled(on_CurrentBranch(World, p, LongBranch[Len(LongBranch)],
                                     QueueBlocks))

QueueCheckChainCompleteness(order) ==
    QueueHandled(IF cm.shutting_down THEN World
                 ELSE check_chain_completeness(World, order, FALSE))

QueueBlockHeader(p, b) ==
    /\ p \in DOMAIN cm.peers
    /\ QueueHandled(on_BlockHeader(World, p, b))

QueueOperationsForBlocks(p, b) ==
    /\ p \in DOMAIN cm.peers
    /\ QueueHandled(on_OperationsForBlocks(World, p, b, 0))

QueuePeerMessage(p, message) ==
    /\ p \in DOMAIN cm.peers
    /\ QueueHandled(on_PeerMessageReceived(World, p, <<message>>).w)

\* the manager's own CheckMempoolCompleteness comes out of its mailbox
ReceiveCheckMempoolCompleteness ==
    /\ sys.check_mempool > 0
    /\ Delivered(on_CheckMempoolCompleteness(
                     [World EXCEPT !.sys.check_mempool = @ - 1]))

NextQueues ==
    \/ \E p \in QueuePeers : QueuePeerBootstrapped(p)
    \/ \E p \in QueuePeers : QueueCurrentBranch(p)
    \/ \E order \in PeerOrders(World) : QueueCheckChainCompleteness(order)
    \/ \E p \in QueuePeers, b \in QueueBlocks : QueueBlockHeader(p, b)
    \/ \E p \in QueuePeers, b \in QueueBlocks :
          QueueOperationsForBlocks(p, b)
    \/ \E p \in QueuePeers, mempool \in QueueMempools :
          \E chain_id \in MessageChainIds :
             QueuePeerMessage(p, CurrentHeadFrom(chain_id,
                                                 mempool.known_valid,
                                                 mempool.pending))
    \/ \E p \in QueuePeers, operation \in QueueOperationHashes :
          \E prevalidation \in Prevalidations :
             QueuePeerMessage(p, OperationFrom(operation, prevalidation))
    \/ ReceiveCheckMempoolCompleteness

SpecQueues == InitQueues /\ [][NextQueues]_vars

\* C32: in every reachable state each peer's queued_block_headers,
\* queued_block_operations and queued_mempool_operations hold at most 10
\* entries each, whatever the number of missing blocks, missing operations
\* or advertised mempool hashes.
C32_QueuesHoldAtMostTen ==
    \A p \in DOMAIN cm.peers :
        /\ Cardinality(cm.peers[p].queued_block_headers) <= 10
        /\ Cardinality(DOMAIN cm.peers[p].queued_block_operations) <= 10
        /\ Cardinality(DOMAIN cm.peers[p].queued_mempool_operations) <= 10

\* a peer's queue took ten of the more than ten things there were to ask
\* it for: block headers, operations of blocks, mempool operations
BlockQueueFull(p) ==
    /\ Cardinality(cm.peers[p].queued_block_headers) = 10
    /\ cm.missing_blocks # {}

OperationsQueueFull(p) ==
    /\ Cardinality(DOMAIN cm.peers[p].queued_block_operations) = 10
    /\ cm.missing_operations # {}

MempoolQueueFull(p) ==
    /\ Cardinality(DOMAIN cm.peers[p].queued_mempool_operations) = 10
    /\ cm.peers[p].missing_mempool_operations # <<>>

C32_Witness ==
    \E p \in DOMAIN cm.peers :
        /\ MempoolQueueFull(p)
        /\ BlockQueueFull(p) \/ OperationsQueueFull(p)

\* the operations a peer can advertise are this many
MempoolBacklogBound == Cardinality(QueueOperationHashes)

\* C33: a peer's missing_mempool_operations backlog is bounded: once the
\* manager has handled every CheckMempoolCompleteness it sent itself, the
\* backlog is no longer than a fixed bound (here the number of operations
\* there are to advertise), whatever CurrentHead messages the peer sent.
C33_MempoolBacklogBounded ==
    sys.check_mempool = 0 =>
        \A p \in DOMAIN cm.peers :
            Len(cm.peers[p].missing_mempool_operations)
                <= MempoolBacklogBound

\* every CurrentHead of the manager's chain makes the backlog longer by the
\* whole advertised mempool
BacklogGrowsByMempool ==
    [][\A p \in DOMAIN cm.peers, mempool \in QueueMempools :
          QueuePeerMessage(p, CurrentHeadFrom(ChainId, mempool.known_valid,
                                              mempool.pending))
            => Len(cm'.peers[p].missing_mempool_operations)
                 = Len(cm.peers[p].missing_mempool_operations)
                     + Len(mempool.known_valid) + Len(mempool.pending)]_vars

-----------------------------------------------------------------------------
\* The cascade of applications (on the run of SpecSync)

\* the BlockApplied event of b is taken out of the mailbox in this step
BlockAppliedProcessed(b) ==
    /\ b \in sys.applied
    /\ sys'.applied = sys.applied \ {b}

\* the successors of b whose metadata and every validation pass are stored
StoredSuccessors(b) ==
    IF b \notin DOMAIN storage.meta THEN {}
    ELSE {storage.meta[b].successors[i] :
             i \in 1..Len(storage.meta[b].successors)}
           \cap {s \in DOMAIN storage.meta : are_operations_complete(World, s)}

\* the ApplyCompletedBlock commands this step puts into the mailbox
CommandsSent ==
    {sys'.apply[i] : i \in (Len(sys.apply) + 1)..Len(sys'.apply)}

\* the blocks of the branch are downloaded in full, metadata and every
\* validation pass, and the block below the lowest of them is applied
DownloadedAboveApplied ==
    /\ \A b \in SyncBlocks :
          /\ b \in storage.blocks
          /\ b \in DOMAIN storage.meta
          /\ are_operations_complete(World, b)
    /\ \E b \in SyncBlocks : Applicable(b)

-----------------------------------------------------------------------------
\* Batches of peer messages about the mempool.  sys.received and sys.result
\* are history: the batch handled last and what
\* process_network_channel_message returned for it.

MaxMempoolEvents == 2
MempoolPeers == {"p1", "p2"}
MempoolOperations == {"o1", "o2"}
AdvertisedMempools == {[known_valid |-> <<"o1">>, pending |-> <<"o2">>]}

\* the messages a peer sends about the mempool
MempoolMessages ==
    {CurrentHeadFrom(chain_id, mempool.known_valid, mempool.pending) :
        chain_id \in MessageChainIds, mempool \in AdvertisedMempools}
      \cup {OperationFrom(operation, prevalidation) :
               operation \in MempoolOperations,
               prevalidation \in Prevalidations}

\* a batch is one message or two
MempoolBatches ==
    {<<message>> : message \in MempoolMessages}
      \cup {<<first, second>> : first, second \in MempoolMessages}

InitMempool ==
    /\ MerkleInit
    /\ HasherIdle
    /\ \E stored \in {s \in ChainStorages :
                        s.current_head # None /\ s.blocks = {Genesis}} :
          /\ storage = stored
          /\ cm = pre_start(stored,
                            num_of_peers_for_bootstrap_threshold).cm
          /\ sys = pre_start(stored,
                             num_of_peers_for_bootstrap_threshold).sys
    /\ handled = 0

MempoolPeerBootstrapped(p) ==
    /\ p \notin DOMAIN cm.peers
    /\ Delivered(on_PeerBootstrapped(World, p))

\* Receive<NetworkChannelMsg> for a batch of messages of peer p
ReceivePeerMessages(p, messages) ==
    /\ handled < MaxMempoolEvents
    /\ p \in DOMAIN cm.peers
    /\ LET r == on_PeerMessageReceived(World, p, messages) IN
       /\ cm' = r.w.cm
       /\ storage' = r.w.storage
       /\ sys' = [received |-> [peer |-> p, messages |-> messages],
                  result |-> r.tag] @@ r.w.sys
    /\ handled' = handled + 1
    /\ UNCHANGED <<merkle_vars, hash_vars>>

NextMempool ==
    \/ \E p \in MempoolPeers : MempoolPeerBootstrapped(p)
    \/ \E p \in MempoolPeers, messages \in MempoolBatches :
          ReceivePeerMessages(p, messages)
    \/ ReceiveCheckMempoolCompleteness

SpecMempool == InitMempool /\ [][NextMempool]_vars

\* this step handles a batch of peer messages
BatchStep == handled' # handled

NewlyStored == storage'.mempool \ storage.mempool
NewlyPublished == sys'.published \ sys.published

\* the batch of this step has an Operation message for the hash that
\* prevalidation accepts, and the sending peer was asked for the hash
AcceptedFromQueue(operation_hash) ==
    /\ operation_hash
           \in DOMAIN cm.peers[sys'.received.peer].queued_mempool_operations
    /\ \E i \in 1..Len(sys'.received.messages) :
          sys'.received.messages[i] = OperationFrom(operation_hash, "Applied")

\* the batch of this step is one Operation message, the sending peer was
\* asked for its hash, and prevalidation says one of these
OneOperation(prevalidations) ==
    /\ Len(sys'.received.messages) = 1
    /\ sys'.received.messages[1].type = "Operation"
    /\ sys'.received.messages[1].prevalidation \in prevalidations
    /\ sys'.received.messages[1].operation
           \in DOMAIN cm.peers[sys'.received.peer].queued_mempool_operations

\* C35: an Operation message is written to the mempool storage and
\* announced as MempoolOperationReceived only if its hash was in the
\* sending peer's queued_mempool_operations and prevalidation accepted it;
\* with UnknownBranch or BranchNotAppliedYet nothing is stored and the
\* handler returns Ok; with any other failure of prevalidation nothing is
\* stored and the handler returns the error.
C35_OperationStoredOnlyIfAccepted ==
    [][BatchStep =>
          /\ \A stored \in NewlyStored : AcceptedFromQueue(stored[1])
          /\ \A announced \in NewlyPublished :
                AcceptedFromQueue(announced.operation_hash)
          /\ OneOperation({"UnknownBranch", "BranchNotAppliedYet"})
               => /\ NewlyStored = {}
                  /\ NewlyPublished = {}
                  /\ sys'.result = "Ok"
          /\ OneOperation({"OtherError", "Refused"})
               => /\ NewlyStored = {}
                  /\ NewlyPublished = {}
                  /\ sys'.result = "Err"]_vars

\* the peer was asked for o1, sent it, prevalidation accepted it: it is in
\* the mempool storage and announced, and the peer's queue let it go
C35_Witness ==
    /\ "received" \in DOMAIN sys
    /\ sys.received.messages = <<OperationFrom("o1", "Applied")>>
    /\ sys.result = "Ok"
    /\ <<"o1", "Pending">> \in storage.mempool
    /\ [operation_hash |-> "o1", operation_type |-> "Pending"]
           \in sys.published
    /\ "o1" \notin
           DOMAIN cm.peers[sys.received.peer].queued_mempool_operations

\* the messages of a batch handled as batches of one message each
RECURSIVE HandledOneByOne(_, _, _)
HandledOneByOne(w, p, messages) ==
    IF messages = <<>> THEN w
    ELSE HandledOneByOne(
             on_PeerMessageReceived(w, p, <<Head(messages)>>).w, p,
             Tail(messages))

\* C40: every message of a received batch is handled: when no message of
\* the batch makes the handler return an error, the batch leaves the
\* manager, the storage and the mailbox as its messages leave them one by
\* one; an UnknownBranch or BranchNotAppliedYet outcome of one Operation
\* message does not keep the messages behind it from being processed.
C40_WholeBatchHandled ==
    [][BatchStep /\ sys'.result = "Ok" =>
          LET each == HandledOneByOne(World, sys'.received.peer,
                                      sys'.received.messages)
          IN /\ cm' = each.cm
             /\ storage' = each.storage
             /\ sys'.check_mempool = each.sys.check_mempool
             /\ sys'.published = each.sys.published]_vars

-----------------------------------------------------------------------------
\* A level as the base of a block_id parameter

\* the request names a level and a distance into the past from it
LevelInThePast(request) ==
    /\ request.base.kind = "level"
    /\ request.separator = "~"

\* C36: for a numeric base, <level>~<N> resolves to the block at level - N
\* on the branch of the current head: the distance handed to
\* find_block_at_distance from the current head is head_level - level + N.
C36_LevelOffsetGoesBack ==
    (/\ sys.request # None
     /\ "separator" \in DOMAIN sys.request[1]
     /\ LevelInThePast(sys.request[1]))
       => LET request == sys.request[1]
              head == storage.current_head
          IN /\ HashAndOffset(request.base.text, Some(request.distance),
                              head)
                  = Ok(<<head, Some(RpcLevel(head) - request.base.level
                                      + request.distance)>>)
             /\ request.base.level - request.distance
                    \in 0..RpcLevel(head)
                  => sys.response
                       = Ok(RpcChain[request.base.level - request.distance
                                       + 1])

-----------------------------------------------------------------------------
\* A staging session of three calls: a copy with calls before and after it

MaxSessionOps == 3
SessionValues == {<<1>>, <<2>>}

\* set, delete and copy only append to the log of actions (lines 515-548)
SessionCall(action, op) ==
    /\ ~poisoned
    /\ nops < MaxSessionOps
    /\ actions' = Append(actions, action)
    /\ StoreUnchanged
    /\ lastOp' = op
    /\ nops' = nops + 1
    /\ UNCHANGED <<poisoned, returned, model_ok, ncommits, ncheckouts,
                   nfailures, other_vars>>

SessionSet(key, value) ==
    /\ SessionCall(SetAction(key, value),
                   [op |-> "set", key |-> key, value |-> value])
    /\ model_map' = RefSet(model_map, key, value)

SessionDelete(key) ==
    /\ SessionCall(RemoveAction(key), [op |-> "delete", key |-> key])
    /\ model_map' = RefDelete(model_map, key)

SessionCopy(from_key, to_key) ==
    /\ SessionCall(CopyAction(from_key, to_key),
                   [op |-> "copy", from_key |-> from_key,
                    to_key |-> to_key])
    /\ model_map' = RefCopy(model_map, from_key, to_key)

NextCopy ==
    \/ \E key \in Keys, value \in SessionValues : SessionSet(key, value)
    \/ \E key \in Keys : SessionDelete(key)
    \/ \E from_key \in Keys, to_key \in Keys : SessionCopy(from_key, to_key)
    \/ \E time \in Times : Commit(time)

SpecCopy == Init /\ [][NextCopy]_vars

\* the reference map after the calls of a log
RefApply(mm, action) ==
    CASE action[1] = "Set" -> RefSet(mm, action[2], action[3])
      [] action[1] = "Copy" -> RefCopy(mm, action[2], action[3])
      [] action[1] = "Remove" -> RefDelete(mm, action[2])

RECURSIVE RefReplay(_, _)
RefReplay(mm, acts) ==
    IF acts = <<>> THEN mm
    ELSE RefReplay(RefApply(mm, Head(acts)), Tail(acts))

\* the map of the commit the session started from
SessionBase ==
    IF last_commit_hash = None THEN NoFunction
    ELSE ReadMap(last_commit_hash[1])

\* the call at i is a copy between keys that do not contain each other, and
\* every call after it is a set or a delete under the key copied from
CopyThenCallsUnderFrom(acts, i) ==
    /\ acts[i][1] = "Copy"
    /\ ~Related(acts[i][2], acts[i][3])
    /\ \A j \in (i + 1)..Len(acts) :
          /\ acts[j][1] \in {"Set", "Remove"}
          /\ IsPrefix(acts[i][2], acts[j][2])

\* what the copy at i binds: to_key/s to the value from_key/s has when the
\* copy is replayed
Snapshot(acts, i) ==
    LET before == RefReplay(SessionBase, SubSeq(acts, 1, i - 1))
        from_key == acts[i][2]
        to_key == acts[i][3]
    IN {<<to_key \o SubSeq(k, Len(from_key) + 1, Len(k)), before[k]>> :
           k \in {x \in DOMAIN before :
                     IsPrefix(from_key, x) /\ x # from_key}}

\* C37: a copy is a snapshot: set or delete calls under from that come
\* after copy(from, to) in the same staging session do not change what is
\* stored under to; after the commit C, get_history(C, to/s) succeeds and
\* returns the value from/s had when the copy was replayed.
C37_CopyIsSnapshot ==
    [][(CommitStep /\ IsOk(lastOp'.res)) =>
          \A i \in 1..Len(actions) :
             CopyThenCallsUnderFrom(actions, i) =>
                \A bound \in Snapshot(actions, i) :
                   (get_history(lastOp.res[2], bound[1])
                       = Ok(bound[2]))']_vars

\* the reference map before the last call of a log, as pairs of key and value
BeforeLastCall(acts) ==
    LET before == RefReplay(SessionBase, SubSeq(acts, 1, Len(acts) - 1))
    IN {<<k, before[k]>> : k \in DOMAIN before}

\* the last call of the log deletes a key that has no value and no subtree
DeletesAbsentKey(acts) ==
    /\ acts # <<>>
    /\ acts[Len(acts)][1] = "Remove"
    /\ \A bound \in BeforeLastCall(acts) :
          ~IsPrefix(acts[Len(acts)][2], bound[1])

\* C38: delete(k) of a key that has no value and no subtree at k changes
\* nothing: after the commit every other key keeps its value, also a value
\* stored at a strict prefix of k.
C38_DeleteOfAbsentKeyChangesNothing ==
    [][(CommitStep /\ IsOk(lastOp'.res) /\ DeletesAbsentKey(actions)) =>
          \A bound \in BeforeLastCall(actions) :
             (get_history(lastOp.res[2], bound[1]) = Ok(bound[2]))']_vars

-----------------------------------------------------------------------------
\* C39: for each block hash the chain manager publishes at most one
\* ApplyBlock request on the shell channel, also when ApplyCompletedBlock
\* for that block is enqueued several times (by the header handler, the
\* operations handler, the successor scan after BlockApplied and the
\* periodic completeness check) before the block is marked applied.
C39_OneApplyBlockPerBlock ==
    \A i, j \in 1..Len(sys.apply_block) :
       sys.apply_block[i] = sys.apply_block[j] => i = j

====
